---- MODULE Spec2Model ----
(***************************************************************************)
(* Model of the CarryMonkey injection engine.                              *)
(*                                                                         *)
(* UnifiedInjectionEngine.injectScript / injectMultipleScripts, the        *)
(* compliant and the compatibility injection strategies, the strategy      *)
(* selector and the UserScripts registration wrapper, as a state machine   *)
(* whose steps are the segments of the async functions between two host    *)
(* calls (chrome.userScripts.*, chrome.scripting.executeScript).  The host *)
(* decides nondeterministically whether a call resolves or rejects.        *)
(*                                                                         *)
(* A second specification, ProbeSpec, models the capability probe          *)
(* InjectionUtils.canUseUserScriptsAPI (cache, layered check, delayed      *)
(* retry, guidance events) and the strategy selector that calls it.        *)
(***************************************************************************)
EXTENDS Integers, Sequences, FiniteSets, TLC

VARIABLES
  flags,              \* feature flags read through isFeatureEnabled
  apiAvailable,       \* chrome.userScripts exists and has register()
  registeredScripts,  \* UserScriptsAPIManager.registeredScripts (its keys)
  hostScripts,        \* the ids chrome.userScripts holds a registration for
  lastCall,           \* the last call made to UserScriptsAPIManager directly
  scriptCache,        \* ScriptResourceManager.scriptCache (its keys)
  gmScriptCache,      \* GMAPIManager.scriptCache (its keys)
  tabLoad,            \* the chrome.tabs.onUpdated listener at work
  gmResponse,         \* the last answer of GMAPIManager.handleAPICall
  guidanceQueue,      \* UserGuidanceService.guidanceQueue
  isShowing,          \* UserGuidanceService.isShowing
  inFlight,           \* the messages a showNextGuidance call is displaying
  guidanceTimers,     \* the pending setTimeout callbacks of showNextGuidance
  shownGuidance,      \* the messages displayed so far, in order
  addedGuidance,      \* how many messages addGuidance has been given
  call,               \* which entry point is running and the batch report
  tasks,              \* one record per injectScript call in flight
  now,                \* Date.now(), in ms
  listeners,          \* GuidanceEventBus.listeners: per event type, the
                      \* handlers in subscription order
  userScriptsAPICache,\* InjectionUtils.userScriptsAPICache
  clears,             \* how often clearUserScriptsAPICache has run
  probes,             \* one record per canUseUserScriptsAPI call
  selection,          \* the last selectStrategy call and what it returned
  dispatch,           \* the last GuidanceEventBus.emit call and what it did
  tipStorage,         \* chrome.storage.local[USER_TIP_KEY]
  currentTipId,       \* UserTipUI.currentTipId
  tipElement,         \* the tip element in the tip container
  tipTimers,          \* the pending setTimeout callbacks of UserTipUI
  tipsShown           \* how many tips UserNotifier.showTip has stored

registryVars == <<registeredScripts, hostScripts>>
engineVars == <<flags, apiAvailable, registryVars, call, tasks>>
probeVars == <<now, listeners, userScriptsAPICache, clears, probes, selection>>
tipVars == <<tipStorage, currentTipId, tipElement, tipTimers, tipsShown>>
guidanceVars == <<guidanceQueue, isShowing, inFlight, guidanceTimers,
                  shownGuidance, addedGuidance>>
appVars == <<lastCall, scriptCache, gmScriptCache, tabLoad, gmResponse,
             guidanceVars>>
uiVars == <<dispatch, tipVars, appVars>>
vars == <<engineVars, probeVars, uiVars>>

\* ------------------------------------------------------------------ bounds
MaxBatch == 2

\* ------------------------------------------------------------------ inputs
\* script.id: the scripts of a batch are numbered by their position
ScriptIds == 1..MaxBatch
\* script.content, abstracted to what the validator sees in it
Contents == {"plain", "eval"}
\* script.meta.grant
GrantLists == {<< >>, <<"GM_setValue">>}
\* script.meta['run-at'] and script.meta.sandbox ("" is an absent field)
RunAts == {"document-start", ""}
Sandboxes == {""}

Scripts == [id : ScriptIds, content : Contents, grant : GrantLists,
            runAt : RunAts, sandbox : Sandboxes]

\* the scripts handed to a batch: no grants, no run-at
BatchScripts(i) ==
  {s \in Scripts : s.id = i /\ s.grant = << >> /\ s.runAt = ""}

FeatureNames == {"storeCompliant", "legacyInjection", "evalFallback"}

\* ------------------------------------------------------------ feature flags
isFeatureEnabled(feature) == flags[feature]

\* UnifiedInjectionEngine.getEngineInfo: the mode the flags put the engine in
EngineMode ==
  IF isFeatureEnabled("storeCompliant") THEN "strict-compliant"
  ELSE IF isFeatureEnabled("legacyInjection") THEN "compatibility"
  ELSE "hybrid"

\* ------------------------------------------------------------- build modes
\* config/build-modes: the two build modes, their features and their
\* storeCompliant mark
BuildModeNames == {"store", "compat"}

\* a table whose compat build leaves legacy injection off
BUILD_MODES_CompatWithoutLegacy ==
  [mode \in BuildModeNames |->
     IF mode = "store"
       THEN [features |-> [userScriptsAPI |-> TRUE,
                           legacyInjection |-> FALSE,
                           dynamicCodeExecution |-> FALSE,
                           strictCSP |-> TRUE,
                           evalFallback |-> FALSE],
             storeCompliant |-> TRUE]
       ELSE [features |-> [userScriptsAPI |-> TRUE,
                           legacyInjection |-> FALSE,
                           dynamicCodeExecution |-> TRUE,
                           strictCSP |-> TRUE,
                           evalFallback |-> TRUE],
             storeCompliant |-> FALSE]]

BUILD_MODES ==
  [mode \in BuildModeNames |->
     IF mode = "store"
       THEN [features |-> [userScriptsAPI |-> TRUE,
                           legacyInjection |-> FALSE,
                           dynamicCodeExecution |-> FALSE,
                           strictCSP |-> TRUE,
                           evalFallback |-> FALSE],
             storeCompliant |-> TRUE]
       ELSE [features |-> [userScriptsAPI |-> TRUE,
                           legacyInjection |-> TRUE,
                           dynamicCodeExecution |-> TRUE,
                           strictCSP |-> TRUE,
                           evalFallback |-> TRUE],
             storeCompliant |-> FALSE]]

\* flags read from the features table alone
getFeatureFlags_FeaturesOnly(mode) ==
  [f \in {"storeCompliant"} \cup DOMAIN BUILD_MODES[mode].features |->
     IF f \in DOMAIN BUILD_MODES[mode].features
       THEN BUILD_MODES[mode].features[f]
       ELSE FALSE]

\* getFeatureFlags: `{ storeCompliant: mode.storeCompliant, ...mode.features }`
getFeatureFlags(mode) ==
  [f \in {"storeCompliant"} \cup DOMAIN BUILD_MODES[mode].features |->
     IF f \in DOMAIN BUILD_MODES[mode].features
       THEN BUILD_MODES[mode].features[f]
       ELSE BUILD_MODES[mode].storeCompliant]

\* the flags the engine consults, as a build in this mode sets them
FlagsOfBuild(mode) == [f \in FeatureNames |-> getFeatureFlags(mode)[f]]

\* --------------------------------------------------------------- validator
\* CompliantScriptExecutor.validateScriptContent: a textual scan that lists
\* the string-to-code constructs found; safe iff the list is empty
validateScriptContent(script) ==
  LET issues == IF script.content = "eval" THEN <<"eval() usage">> ELSE << >>
  IN  [safe |-> Len(issues) = 0, issues |-> issues]

\* ------------------------------------------------------------ InjectionUtils
needsIsolation(script) ==
  LET grants == script.grant
  IN  Len(grants) > 0 /\ ~(\A i \in 1..Len(grants) : grants[i] = "none")

convertRunAtTiming(runAt) ==
  CASE runAt = "document-start" -> "document_start"
    [] runAt = "document-end"   -> "document_end"
    [] runAt = "document-idle"  -> "document_idle"
    [] OTHER                    -> "document_end"

getWorldString(isolated) == IF isolated THEN "ISOLATED" ELSE "MAIN"

\* an executor that starts with direct evaluation
createEnhancedScriptExecutor_EvalFirst(tagOk, funcOk, evalOk) ==
  IF evalOk THEN [ran |-> "eval", tried |-> <<"eval">>]
  ELSE IF tagOk
    THEN [ran |-> "script-tag", tried |-> <<"eval", "script-tag">>]
  ELSE IF funcOk
    THEN [ran |-> "function", tried |-> <<"eval", "script-tag", "function">>]
  ELSE [ran |-> "none", tried |-> <<"eval", "script-tag", "function">>]

\* The function InjectionUtils.createEnhancedScriptExecutor returns, run in
\* the page: script tag, then Function constructor, then eval; each try*
\* helper catches its own exception and answers a boolean.  The function
\* returns normally in every case.
createEnhancedScriptExecutor(tagOk, funcOk, evalOk) ==
  IF tagOk THEN [ran |-> "script-tag", tried |-> <<"script-tag">>]
  ELSE IF funcOk
    THEN [ran |-> "function", tried |-> <<"script-tag", "function">>]
  ELSE IF evalOk
    THEN [ran |-> "eval", tried |-> <<"script-tag", "function", "eval">>]
  ELSE [ran |-> "none", tried |-> <<"script-tag", "function", "eval">>]

\* UserScriptsAPIManager.isAvailable
isAvailable == apiAvailable

\* --------------------------------------------------------- capability probe
CACHE_DURATION == 30000
RetryDelay == 150

\* the clock stops at MaxTime and the cache is cleared at most MaxClears
\* times; ProbeSpec and SelectSpec run up to MaxProbes calls at a time with
\* every answer of the browser, CacheSpec up to MaxOverlap calls at a time
\* with a browser that only grants or denies the permission
MaxTime == 30150
MaxProbes == 1
MaxOverlap == 2
MaxClears == 1
TickSteps == {CACHE_DURATION - RetryDelay, CACHE_DURATION}

\* What the browser answers at the four layers of the check, read when the
\* layer runs: chrome.userScripts (object), chrome.permissions.contains
\* (permission), typeof chrome.userScripts.register (register) and
\* chrome.userScripts.getScripts (functional).  "throws" is an exception
\* raised by the layer.
ObjectAnswers == {"ok", "missing", "throws"}
PermissionAnswers == {"ok", "denied", "throws"}
RegisterAnswers == {"ok", "missing", "throws"}
FunctionalAnswers == {"ok", "throws"}

\* ---- GuidanceEventBus
EventTypes == {"userscripts_permission_denied", "userscripts_unavailable",
               "browser_compatibility"}

\* a handler is a function object (id) that returns ("ok") or throws
\* ("throws") when it is called
Handlers == {[id |-> 1, act |-> "ok"], [id |-> 2, act |-> "throws"],
             [id |-> 3, act |-> "ok"]}

\* handlers that use the bus while an event is handed to them: one removes
\* itself (off with its own function), one removes the first handler above,
\* one subscribes the first handler above once more
ReentrantHandlers == {[id |-> 4, act |-> "off-self"],
                      [id |-> 5, act |-> "off-other"],
                      [id |-> 6, act |-> "on-other"]}

\* `new Map()`: no event type has handlers
NoListeners == [t \in EventTypes |-> << >>]

\* the subscriptions the capability probe is run with: none, one handler
\* that returns, several handlers of which some throw
ListenerMaps ==
  {NoListeners,
   [NoListeners EXCEPT
      !["userscripts_unavailable"] = <<[id |-> 1, act |-> "ok"]>>],
   [NoListeners EXCEPT
      !["userscripts_unavailable"] =
         <<[id |-> 2, act |-> "throws"], [id |-> 1, act |-> "ok"]>>,
      !["userscripts_permission_denied"] =
         <<[id |-> 3, act |-> "ok"], [id |-> 2, act |-> "throws"]>>]}

\* no emit call has been made
NoDispatch == [type |-> "none", calls |-> << >>, logged |-> << >>,
               called |-> 0, threw |-> FALSE]

\* ---- UserScriptsAPIManager
\* no call has been made to the manager
NoCall == [op |-> "none", ids |-> {}, threw |-> FALSE]

\* ---- background
\* no tab is loading and no GM_* message has been answered
BackgroundIdle ==
  /\ scriptCache = {}
  /\ gmScriptCache = {}
  /\ tabLoad = [pc |-> "idle", scripts |-> << >>, index |-> 0,
                attempted |-> {}]
  /\ gmResponse = [action |-> "none", scriptId |-> 0, status |-> "none",
                   error |-> "none"]

\* ---- UserGuidanceService
GuidanceIdle ==
  /\ guidanceQueue = << >>
  /\ isShowing = FALSE
  /\ inFlight = {}
  /\ guidanceTimers = 0
  /\ shownGuidance = << >>
  /\ addedGuidance = 0

\* ---- UserTipUI
\* no tip: the storage key is absent, currentTipId is null, the container is
\* empty; a tip is named by its timestamp
NoTip == -1

TipIdle ==
  /\ tipStorage = NoTip
  /\ currentTipId = NoTip
  /\ tipElement = [tip |-> NoTip, fading |-> FALSE]
  /\ tipTimers = {}
  /\ tipsShown = 0

\* ---- GuidanceEventBus.emit
\* `listener(event)` with no try around it: an exception leaves the callback
TryCall_NoCatch(h) ==
  [id |-> h.id, raised |-> h.act = "throws", caught |-> FALSE]

\* the callback of forEach: `try { listener(event) } catch (error) { log }`
TryCall(h) ==
  [id |-> h.id, raised |-> h.act = "throws", caught |-> h.act = "throws"]

\* listeners.indexOf(listener): the first position holding the function
\* object, 0 when there is none
indexOf(ls, h) ==
  IF \E k \in 1..Len(ls) : ls[k] = h
    THEN CHOOSE k \in 1..Len(ls) :
           ls[k] = h /\ \A j \in 1..(k - 1) : ls[j] # h
    ELSE 0

\* listeners.splice(index, 1)
splice(ls, index) ==
  [k \in 1..(Len(ls) - 1) |-> IF k < index THEN ls[k] ELSE ls[k + 1]]

\* the array of the event type after handler h has run: off splices the
\* first occurrence out of this same array, on pushes onto it
\* listeners.forEach(callback) from index k on, as Array.prototype.forEach
\* runs it: the length is read once (len), an index the array no longer has
\* is passed over, the element is read when its turn comes.  It answers the
\* callbacks made, in order, and the array it leaves; an exception leaving a
\* callback ends the loop
RECURSIVE forEach(_, _, _)
forEach(ls, k, len) ==
  IF k > len
    THEN [calls |-> << >>, after |-> ls]
  ELSE IF k > Len(ls)
    THEN forEach(ls, k + 1, len)
  ELSE LET c == TryCall(ls[k])
           other == [id |-> 1, act |-> "ok"]
           remove(x) == IF indexOf(ls, x) > 0 THEN splice(ls, indexOf(ls, x))
                        ELSE ls
           ls1 == CASE ls[k].act = "off-self"  -> remove(ls[k])
                    [] ls[k].act = "off-other" -> remove(other)
                    [] ls[k].act = "on-other"  -> Append(ls, other)
                    [] OTHER                   -> ls
       IN  IF c.raised /\ ~c.caught
             THEN [calls |-> <<c>>, after |-> ls1]
             ELSE LET rest == forEach(ls1, k + 1, len)
                  IN  [calls |-> <<c>> \o rest.calls, after |-> rest.after]

NoCache == [set |-> FALSE, available |-> FALSE, timestamp |-> 0]

\* GuidanceEventBus.emit: every listener is called in order, an exception of
\* a listener is caught and logged; emit returns normally
emit(eventType) ==
  LET ls == listeners[eventType]
      cs == IF Len(ls) > 0 THEN forEach(ls, 1, Len(ls)).calls ELSE << >>
      raisedAt == {k \in 1..Len(cs) : cs[k].raised}
  IN  [type   |-> eventType,
       calls  |-> [k \in 1..Len(cs) |-> cs[k].id],
       logged |-> [k \in 1..Len(cs) |-> cs[k].raised /\ cs[k].caught],
       called |-> Len(cs),
       threw  |-> \E k \in raisedAt : ~cs[k].caught]

\* the handlers of the event type when emit has returned
\* One canUseUserScriptsAPI call.  start is the `now` the call read, epoch
\* the number of cache clears before it, overlaps the calls still running
\* when it began.  checks counts the runs of checkUserScriptsAPIInternal;
\* first is the result of the immediate check; verdict and threw describe the
\* last run: where it ended and which layers raised an exception; events
\* counts the guidance events the call emitted, heard the listeners the last
\* of them was handed to; layers lists the layers the last run evaluated, in
\* order, and event is the guidance event the last run emitted.
NoEvent == [type |-> "none", reason |-> "none"]

\* the event a failing layer hands to emit: its type, and the reason in its
\* data (userscripts_permission_denied carries no data)
LayerEvent(reason, eventType) ==
  [type |-> eventType,
   reason |-> IF eventType = "userscripts_unavailable" THEN reason ELSE "none"]

NewProbe ==
  [start    |-> now,
   epoch    |-> clears,
   overlaps |-> {i \in DOMAIN probes : probes[i].pc # "done"},
   pc       |-> "start",
   hit      |-> FALSE,
   checks   |-> 0,
   first    |-> "none",
   due      |-> 0,
   verdict  |-> "none",
   threw    |-> {},
   events   |-> 0,
   heard    |-> 0,
   layers   |-> << >>,
   event    |-> NoEvent,
   result   |-> "pending",
   outcome  |-> "pending"]

BoolName(b) == IF b THEN "true" ELSE "false"

\* a retry policy that repeats the delayed check once more
CheckReturned_RetryTwice(p, available) ==
  LET p1 == [p EXCEPT !.first = IF p.checks = 1 THEN BoolName(available) ELSE @]
  IN  IF p.checks < 3 /\ ~available
        THEN [p1 EXCEPT !.pc = "delay", !.due = now + RetryDelay]
        ELSE [p1 EXCEPT !.pc = "done", !.due = 0,
                        !.result = BoolName(available),
                        !.outcome = "fulfilled"]

\* canUseUserScriptsAPI resumes after `await checkUserScriptsAPIInternal()`:
\* an immediate check that failed starts the delay, any other check is final
CheckReturned(p, available) ==
  LET p1 == [p EXCEPT !.first = IF p.checks = 1 THEN BoolName(available) ELSE @]
  IN  IF p.checks = 1 /\ ~available
        THEN [p1 EXCEPT !.pc = "delay", !.due = now + RetryDelay]
        ELSE [p1 EXCEPT !.pc = "done", !.due = 0,
                        !.result = BoolName(available),
                        !.outcome = "fulfilled"]

\* a failing layer that reports itself only when somebody listens
CheckFailed_OnlyWhenHeard(p, reason, eventType) ==
  LET e == emit(eventType)
  IN  CheckReturned([p EXCEPT !.verdict = reason,
                              !.events = @ + 1,
                              !.event = LayerEvent(reason, e.type),
                              !.heard = e.called],
                    e.called = 0)

\* a layer of checkUserScriptsAPIInternal fails: warn, emit, return false
CheckFailed(p, reason, eventType) ==
  LET e == emit(eventType)
  IN  CheckReturned([p EXCEPT !.verdict = reason,
                              !.events = @ + 1,
                              !.event = LayerEvent(reason, e.type),
                              !.heard = e.called],
                    FALSE)

\* the outer catch of checkUserScriptsAPIInternal: return false
CheckException(p, layer) ==
  CheckReturned([p EXCEPT !.verdict = "check_exception",
                          !.threw = @ \cup {layer}],
                FALSE)

\* checkUserScriptsAPIInternal up to `await chrome.permissions.contains`
CheckStart(p, object) ==
  LET p1 == [p EXCEPT !.checks = @ + 1, !.verdict = "none", !.threw = {},
                      !.heard = 0, !.layers = <<"object">>,
                      !.event = NoEvent]
  IN  CASE object = "missing" ->
             CheckFailed(p1, "userScripts_object_missing",
                         "userscripts_unavailable")
        [] object = "throws" -> CheckException(p1, "object")
        [] OTHER -> [p1 EXCEPT !.pc = "perm",
                               !.layers = Append(@, "permission")]

\* the permission layer with its exception treated as a failed check
AfterPermission_ThrowIsUnavailable(p, permission, register) ==
  IF permission = "denied"
    THEN CheckFailed(p, "permission_denied", "userscripts_permission_denied")
  ELSE IF permission = "throws"
    THEN CheckException(p, "permission")
  ELSE LET p1 == [p EXCEPT !.layers = Append(@, "register")]
       IN  CASE register = "missing" ->
                  CheckFailed(p1, "register_method_missing",
                              "userscripts_unavailable")
             [] register = "throws" -> CheckException(p1, "register")
             [] OTHER -> [p1 EXCEPT !.pc = "func",
                                    !.layers = Append(@, "functional")]

\* checkUserScriptsAPIInternal from the answer of chrome.permissions.contains
\* to `await chrome.userScripts.getScripts()`: a denied permission fails the
\* check, an exception of the query is logged and the check continues
AfterPermission(p, permission, register) ==
  IF permission = "denied"
    THEN CheckFailed(p, "permission_denied", "userscripts_permission_denied")
  ELSE LET p1 == [p EXCEPT !.threw = IF permission = "throws"
                                       THEN @ \cup {"permission"} ELSE @,
                           !.layers = Append(@, "register")]
       IN  CASE register = "missing" ->
                  CheckFailed(p1, "register_method_missing",
                              "userscripts_unavailable")
             [] register = "throws" -> CheckException(p1, "register")
             [] OTHER -> [p1 EXCEPT !.pc = "func",
                                    !.layers = Append(@, "functional")]

\* checkUserScriptsAPIInternal from the answer of getScripts to its return
AfterFunctional(p, functional) ==
  IF functional = "ok"
    THEN CheckReturned([p EXCEPT !.verdict = "passed"], TRUE)
    ELSE CheckFailed([p EXCEPT !.threw = @ \cup {"functional"}],
                     "functional_test_failed", "userscripts_unavailable")

CacheFresh ==
  /\ userScriptsAPICache.set
  /\ now - userScriptsAPICache.timestamp < CACHE_DURATION

\* canUseUserScriptsAPI up to its first await: a cache hit returns the cached
\* value, a miss starts the immediate check
canUseUserScriptsAPI(object) ==
  IF CacheFresh
    THEN [NewProbe EXCEPT
            !.hit = TRUE, !.pc = "done",
            !.result = BoolName(userScriptsAPICache.available),
            !.outcome = "fulfilled"]
    ELSE CheckStart(NewProbe, object)

\* `this.userScriptsAPICache = { available, timestamp: now }`, reached by a
\* call that probed and is done
CacheAfter(p) ==
  IF p.pc = "done" /\ ~p.hit
    THEN [set |-> TRUE, available |-> p.result = "true",
          timestamp |-> p.start]
    ELSE userScriptsAPICache

\* ------------------------------------------------------- strategy selector
SpecialAPIs == {"GM_setValue", "GM_getValue", "GM_xmlhttpRequest",
                "GM_getResourceText", "GM_getResourceURL"}

\* what an async function hands to its caller
PromiseOfBoolean == [kind |-> "promise", value |-> FALSE]

\* the truth value JavaScript gives a value in a condition: an object, a
\* Promise included, is truthy
ToBoolean(v) == IF v.kind = "boolean" THEN v.value ELSE TRUE

\* InjectionStrategySelector.checkUserScriptsAPISupport returns what
\* InjectionUtils.canUseUserScriptsAPI() returns, without awaiting it; the
\* decision table reads it in a condition
checkUserScriptsAPISupport == ToBoolean(PromiseOfBoolean)

\* the decision table without its document-start row
selectStrategy_NoDynamicRow(script, supportsUserScriptsAPI) ==
  LET grants == script.grant
      hasGMAPIs == Len(grants) > 0
                   /\ ~(\A i \in 1..Len(grants) : grants[i] = "none")
      hasSpecialAPIs == \E i \in 1..Len(grants) : grants[i] \in SpecialAPIs
      runAt == IF script.runAt = "" THEN "document-end" ELSE script.runAt
      sandboxMode == IF script.sandbox = "" THEN "raw" ELSE script.sandbox
      isolation == sandboxMode # "raw" \/ hasGMAPIs
  IN  IF hasSpecialAPIs /\ supportsUserScriptsAPI
        THEN [method |-> "userscripts-api", world |-> "USER_SCRIPT",
              timing |-> convertRunAtTiming(runAt)]
      ELSE IF isolation
        THEN [method |-> "content-script", world |-> "USER_SCRIPT",
              timing |-> convertRunAtTiming(runAt)]
      ELSE [method |-> "content-script", world |-> "MAIN",
            timing |-> convertRunAtTiming(runAt)]

\* the decision table with isolation decided by the grants alone
selectStrategy_SandboxIgnored(script, supportsUserScriptsAPI) ==
  LET grants == script.grant
      hasGMAPIs == Len(grants) > 0
                   /\ ~(\A i \in 1..Len(grants) : grants[i] = "none")
      hasSpecialAPIs == \E i \in 1..Len(grants) : grants[i] \in SpecialAPIs
      runAt == IF script.runAt = "" THEN "document-end" ELSE script.runAt
      needsEarlyExecution == runAt = "document-start"
      isolation == hasGMAPIs
  IN  IF needsEarlyExecution /\ hasSpecialAPIs /\ supportsUserScriptsAPI
        THEN [method |-> "userscripts-dynamic", world |-> "USER_SCRIPT",
              timing |-> "document_start"]
      ELSE IF hasSpecialAPIs /\ supportsUserScriptsAPI
        THEN [method |-> "userscripts-api", world |-> "USER_SCRIPT",
              timing |-> convertRunAtTiming(runAt)]
      ELSE IF isolation
        THEN [method |-> "content-script", world |-> "USER_SCRIPT",
              timing |-> convertRunAtTiming(runAt)]
      ELSE [method |-> "content-script", world |-> "MAIN",
            timing |-> convertRunAtTiming(runAt)]

\* the decision table with its isolated content-script row in the page's world
selectStrategy_IsolatedRowShared(script, supportsUserScriptsAPI) ==
  LET grants == script.grant
      hasGMAPIs == Len(grants) > 0
                   /\ ~(\A i \in 1..Len(grants) : grants[i] = "none")
      hasSpecialAPIs == \E i \in 1..Len(grants) : grants[i] \in SpecialAPIs
      runAt == IF script.runAt = "" THEN "document-end" ELSE script.runAt
      needsEarlyExecution == runAt = "document-start"
      sandboxMode == IF script.sandbox = "" THEN "raw" ELSE script.sandbox
      isolation == sandboxMode # "raw" \/ hasGMAPIs
  IN  IF needsEarlyExecution /\ hasSpecialAPIs /\ supportsUserScriptsAPI
        THEN [method |-> "userscripts-dynamic", world |-> "USER_SCRIPT",
              timing |-> "document_start"]
      ELSE IF hasSpecialAPIs /\ supportsUserScriptsAPI
        THEN [method |-> "userscripts-api", world |-> "USER_SCRIPT",
              timing |-> convertRunAtTiming(runAt)]
      ELSE [method |-> "content-script", world |-> "MAIN",
            timing |-> convertRunAtTiming(runAt)]

\* InjectionStrategySelector.selectStrategy: the decision table
selectStrategy(script, supportsUserScriptsAPI) ==
  LET grants == script.grant
      hasGMAPIs == Len(grants) > 0
                   /\ ~(\A i \in 1..Len(grants) : grants[i] = "none")
      hasSpecialAPIs == \E i \in 1..Len(grants) : grants[i] \in SpecialAPIs
      runAt == IF script.runAt = "" THEN "document-end" ELSE script.runAt
      needsEarlyExecution == runAt = "document-start"
      sandboxMode == IF script.sandbox = "" THEN "raw" ELSE script.sandbox
      isolation == sandboxMode # "raw" \/ hasGMAPIs
  IN  IF needsEarlyExecution /\ hasSpecialAPIs /\ supportsUserScriptsAPI
        THEN [method |-> "userscripts-dynamic", world |-> "USER_SCRIPT",
              timing |-> "document_start"]
      ELSE IF hasSpecialAPIs /\ supportsUserScriptsAPI
        THEN [method |-> "userscripts-api", world |-> "USER_SCRIPT",
              timing |-> convertRunAtTiming(runAt)]
      ELSE IF isolation
        THEN [method |-> "content-script", world |-> "USER_SCRIPT",
              timing |-> convertRunAtTiming(runAt)]
      ELSE [method |-> "content-script", world |-> "MAIN",
            timing |-> convertRunAtTiming(runAt)]

\* a score without the bonus for the matching timing
getStrategyScore_NoTimingBonus(strategy, script) ==
  LET grants == script.grant
      base == IF strategy.method = "userscripts-dynamic" THEN 100
              ELSE IF strategy.method = "userscripts-api" THEN 80
              ELSE 60
      hasGMAPIs == \E i \in 1..Len(grants) : grants[i] # "none"
  IN  base + (IF hasGMAPIs /\ strategy.world = "USER_SCRIPT" THEN 15 ELSE 0)

\* InjectionStrategySelector.getStrategyScore
getStrategyScore(strategy, script) ==
  LET grants == script.grant
      base == IF strategy.method = "userscripts-dynamic" THEN 100
              ELSE IF strategy.method = "userscripts-api" THEN 80
              ELSE 60
      requestedTiming == IF script.runAt = "" THEN "document-end"
                         ELSE script.runAt
      timingMatch == convertRunAtTiming(requestedTiming) = strategy.timing
      hasGMAPIs == \E i \in 1..Len(grants) : grants[i] # "none"
  IN  base + (IF timingMatch THEN 20 ELSE 0)
           + (IF hasGMAPIs /\ strategy.world = "USER_SCRIPT" THEN 15 ELSE 0)

\* script.meta._injectionStrategy before the engine has attached one
NoStrategy == [method |-> "none", world |-> "none", timing |-> "none"]

\* ------------------------------------------------------------------- tasks
\* One injectScript call.  pc is the host call the call is suspended on,
\* stages the stages the engine has entered, results how each strategy call
\* the engine made has ended, error the kind of the last exception raised,
\* execs the chrome.scripting.executeScript calls that have settled,
\* registeredAs the descriptor the script was last registered with.
NewTask(script) ==
  [script         |-> script,
   strategy       |-> NoStrategy,
   pc             |-> "idle",
   tier           |-> "none",
   stages         |-> << >>,
   results        |-> << >>,
   compliantCalls |-> 0,
   compatCalls    |-> 0,
   legacyCalls    |-> 0,
   hostOps        |-> {},
   execs          |-> << >>,
   registeredAs   |-> NoStrategy,
   ran            |-> "none",
   tried          |-> << >>,
   log            |-> {},
   error          |-> "none",
   outcome        |-> "pending"]

Settled(k) == k.outcome # "pending"

\* ------------------------------------------- settling an injectScript call
\* injectScript returns: the promise the caller awaits is fulfilled
Fulfil(k, logged) ==
  [k EXCEPT !.pc = "done", !.outcome = "fulfilled", !.log = @ \cup logged]

\* a throw that reports the failure and leaves the call where it was
Reject_CallGoesOn(k, err, logged) ==
  [k EXCEPT !.outcome = "rejected", !.error = err, !.log = @ \cup logged]

\* injectScript throws: the promise the caller awaits is rejected
Reject(k, err, logged) ==
  [k EXCEPT !.pc = "done", !.outcome = "rejected", !.error = err,
            !.log = @ \cup logged]

\* ------------------------------------------ CompliantInjectionStrategy.inject
\* inject refusing an unsafe script whatever the mode
CompliantInject_RefuseInEveryMode(k) ==
  LET validation == validateScriptContent(k.script)
      k1 == [k EXCEPT !.compliantCalls = @ + 1]
  IN  IF ~validation.safe
        THEN [k1 EXCEPT !.pc = "C_rejected", !.error = "ValidationError"]
        ELSE [k1 EXCEPT !.pc = "C_avail"]

\* inject that validates, warns and goes on whatever the verdict
CompliantInject_WarnOnly(k) ==
  [k EXCEPT !.compliantCalls = @ + 1, !.pc = "C_avail"]

\* The synchronous head of inject: validate, refuse in strict mode, else
\* suspend on `await this.canUseUserScriptsAPI()`
CompliantInject(k) ==
  LET validation == validateScriptContent(k.script)
      k1 == [k EXCEPT !.compliantCalls = @ + 1]
  IN  IF ~validation.safe /\ isFeatureEnabled("storeCompliant")
        THEN [k1 EXCEPT !.pc = "C_rejected", !.error = "ValidationError"]
        ELSE [k1 EXCEPT !.pc = "C_avail"]

\* ------------------------------------- CompatibilityInjectionStrategy.inject
\* a permissive strategy that asks the selector again before it starts
CompatibilityInject_SelectsAgain(k) ==
  CompliantInject(
    [k EXCEPT !.compatCalls = @ + 1,
              !.strategy = selectStrategy(k.script, checkUserScriptsAPISupport),
              !.stages = Append(@, "select")])

\* "first try the compliant strategy"
CompatibilityInject(k) ==
  CompliantInject([k EXCEPT !.compatCalls = @ + 1])

\* legacy methods that go straight to the script
injectWithLegacyMethods_NoBridge(k) ==
  [k EXCEPT !.legacyCalls = @ + 1,
            !.hostOps = @ \cup {"executeScript"},
            !.pc = "L_exec"]

\* injectWithLegacyMethods up to its first host call
injectWithLegacyMethods(k) ==
  LET k1 == [k EXCEPT !.legacyCalls = @ + 1,
                      !.hostOps = @ \cup {"executeScript"}]
  IN  IF needsIsolation(k.script)
        THEN [k1 EXCEPT !.pc = "L_bridgeId"]
        ELSE [k1 EXCEPT !.pc = "L_exec"]

\* ------------------------------------------------ injectScript, catch blocks
\* the emergency attempt threw: `throw fallbackError`
EmergencyThrew(k) == Reject(k, "ExecutionFailure", {"fallback-failed"})

\* the outer catch with the emergency attempt not guarded by the strict flag
EngineCatch_NoStrictGuard(k) ==
  LET k1 == [k EXCEPT !.log = @ \cup {"injection-failed"}]
  IN  IF ~isFeatureEnabled("legacyInjection")
         /\ isFeatureEnabled("evalFallback")
        THEN CompatibilityInject(
               [k1 EXCEPT !.tier = "emergency",
                          !.stages = Append(@, "emergency")])
        ELSE Reject(k1, "ExecutionFailure", {})

\* the outer catch with the emergency attempt not guarded by the legacy flag
EngineCatch_NoLegacyGuard(k) ==
  LET k1 == [k EXCEPT !.log = @ \cup {"injection-failed"}]
  IN  IF ~isFeatureEnabled("storeCompliant")
         /\ isFeatureEnabled("evalFallback")
        THEN CompatibilityInject(
               [k1 EXCEPT !.tier = "emergency",
                          !.stages = Append(@, "emergency")])
        ELSE Reject(k1, "ExecutionFailure", {})

\* the outer catch of injectScript
EngineCatch(k) ==
  LET k1 == [k EXCEPT !.log = @ \cup {"injection-failed"}]
  IN  IF ~isFeatureEnabled("storeCompliant")
         /\ ~isFeatureEnabled("legacyInjection")
         /\ isFeatureEnabled("evalFallback")
        THEN CompatibilityInject(
               [k1 EXCEPT !.tier = "emergency",
                          !.stages = Append(@, "emergency")])
        ELSE Reject(k1, "ExecutionFailure", {})

\* CompatibilityInjectionStrategy.inject threw, in the tier that called it
CompatThrew(k) ==
  LET k1 == [k EXCEPT !.results = Append(@, "threw")]
  IN  IF k.tier = "emergency" THEN EmergencyThrew(k1) ELSE EngineCatch(k1)

\* the hybrid fallback succeeds but is not recorded as a fallback
CompatReturned_FallbackNotRecorded(k) ==
  LET k1 == [k EXCEPT !.results = Append(@, "returned")]
  IN  IF k.tier = "emergency" THEN Fulfil(k1, {"fallback-success"})
      ELSE Fulfil(k1, {"injection-success"})

\* CompatibilityInjectionStrategy.inject returned, in the tier that called it
CompatReturned(k) ==
  LET k1 == [k EXCEPT !.results = Append(@, "returned")]
  IN  IF k.tier = "emergency" THEN Fulfil(k1, {"fallback-success"})
      ELSE IF isFeatureEnabled("legacyInjection")
        THEN Fulfil(k1, {"injection-success"})
      ELSE Fulfil(k1, {"fallback-true", "injection-success"})

\* CompliantInjectionStrategy.inject threw: the catch of whoever called it
CompliantThrew(k) ==
  LET k1 == [k EXCEPT !.results = Append(@, "threw")]
  IN  IF k.tier = "direct" THEN Reject(k1, k.error, {})
      ELSE IF k.tier = "compliant"
        THEN IF isFeatureEnabled("storeCompliant")
               THEN EngineCatch(k1)
               ELSE CompatibilityInject(
                      [k1 EXCEPT !.tier = "permissive",
                                 !.stages = Append(@, "permissive")])
        ELSE injectWithLegacyMethods(k)

\* CompliantInjectionStrategy.inject returned
CompliantReturned(k) ==
  LET k1 == [k EXCEPT !.results = Append(@, "returned")]
  IN  IF k.tier = "direct" THEN Fulfil(k1, {})
      ELSE IF k.tier = "compliant" THEN Fulfil(k1, {"injection-success"})
      ELSE CompatReturned(k)

\* ------------------------------------------------------------- injectScript
\* injectScript with the strict-mode validation gate left out
injectScript_NoValidationGate(script) ==
  LET k1 == [NewTask(script) EXCEPT
               !.strategy = selectStrategy(script, checkUserScriptsAPISupport),
               !.stages = <<"select">>,
               !.log = {"injection-start"}]
  IN  IF isFeatureEnabled("storeCompliant")
        THEN CompliantInject(
               [k1 EXCEPT !.tier = "compliant",
                          !.stages = Append(@, "compliant")])
      ELSE IF isFeatureEnabled("legacyInjection")
        THEN CompatibilityInject(
               [k1 EXCEPT !.tier = "permissive",
                          !.stages = Append(@, "permissive")])
      ELSE CompliantInject(
             [k1 EXCEPT !.tier = "compliant",
                        !.stages = Append(@, "compliant")])

\* injectScript in the order validation, selection, execution
injectScript_ValidateBeforeSelect(script) ==
  LET k0 == [NewTask(script) EXCEPT !.log = {"injection-start"}]
      sel(k) == [k EXCEPT
                   !.strategy = selectStrategy(script, checkUserScriptsAPISupport),
                   !.stages = Append(@, "select")]
  IN  IF isFeatureEnabled("storeCompliant")
        THEN LET validation == validateScriptContent(script)
                 k2 == [k0 EXCEPT !.stages = Append(@, "validate")]
             IN  IF ~validation.safe
                   THEN Reject(k2, "ValidationError", {"validation-failed"})
                   ELSE CompliantInject(
                          [sel(k2) EXCEPT !.tier = "compliant",
                                          !.stages = Append(@, "compliant")])
      ELSE IF isFeatureEnabled("legacyInjection")
        THEN CompatibilityInject(
               [sel(k0) EXCEPT !.tier = "permissive",
                               !.stages = Append(@, "permissive")])
      ELSE CompliantInject(
             [sel(k0) EXCEPT !.tier = "compliant",
                             !.stages = Append(@, "compliant")])

\* injectScript with the validation gate applied in every mode
injectScript_ValidateAlways(script) ==
  LET k1 == [NewTask(script) EXCEPT
               !.strategy = selectStrategy(script, checkUserScriptsAPISupport),
               !.stages = <<"select">>,
               !.log = {"injection-start"}]
      validation == validateScriptContent(script)
      k2 == [k1 EXCEPT !.stages = Append(@, "validate")]
  IN  IF ~validation.safe
        THEN Reject(k2, "ValidationError", {"validation-failed"})
      ELSE IF isFeatureEnabled("storeCompliant")
        THEN CompliantInject(
               [k2 EXCEPT !.tier = "compliant",
                          !.stages = Append(@, "compliant")])
      ELSE IF isFeatureEnabled("legacyInjection")
        THEN CompatibilityInject(
               [k1 EXCEPT !.tier = "permissive",
                          !.stages = Append(@, "permissive")])
      ELSE CompliantInject(
             [k1 EXCEPT !.tier = "compliant",
                        !.stages = Append(@, "compliant")])

\* The synchronous head of injectScript: select and attach the strategy,
\* validate in strict mode, dispatch on the mode
injectScript(script) ==
  LET k1 == [NewTask(script) EXCEPT
               !.strategy = selectStrategy(script, checkUserScriptsAPISupport),
               !.stages = <<"select">>,
               !.log = {"injection-start"}]
  IN  IF isFeatureEnabled("storeCompliant")
        THEN LET validation == validateScriptContent(script)
                 k2 == [k1 EXCEPT !.stages = Append(@, "validate")]
             IN  IF ~validation.safe
                   THEN Reject(k2, "ValidationError", {"validation-failed"})
                   ELSE CompliantInject(
                          [k2 EXCEPT !.tier = "compliant",
                                     !.stages = Append(@, "compliant")])
      ELSE IF isFeatureEnabled("legacyInjection")
        THEN CompatibilityInject(
               [k1 EXCEPT !.tier = "permissive",
                          !.stages = Append(@, "permissive")])
      ELSE CompliantInject(
             [k1 EXCEPT !.tier = "compliant",
                        !.stages = Append(@, "compliant")])

\* -------------------------------------------------------------------- Init
Init ==
  /\ flags \in [FeatureNames -> BOOLEAN]
  /\ apiAvailable \in BOOLEAN
  /\ registeredScripts = {}
  /\ hostScripts = {}
  /\ call = [kind |-> "none", successful |-> 0, failed |-> 0, threw |-> FALSE]
  /\ tasks = << >>
  /\ now = 0
  /\ listeners = NoListeners
  /\ dispatch = NoDispatch
  /\ TipIdle
  /\ lastCall = NoCall
  /\ BackgroundIdle
  /\ GuidanceIdle
  /\ userScriptsAPICache = NoCache
  /\ clears = 0
  /\ probes = << >>
  /\ selection = [probe |-> 0,
                  script |-> [id |-> 1, content |-> "plain", grant |-> << >>,
                              runAt |-> "", sandbox |-> ""],
                  strategy |-> NoStrategy,
                  score |-> 0]

Tasks == DOMAIN tasks

SetTask(t, k) == tasks' = [tasks EXCEPT ![t] = k]

\* ----------------------------------------------------------- entry points
\* background.ts calls UnifiedInjectionEngine.injectScript(script, tabId)
InjectScriptCall ==
  /\ call.kind = "none"
  /\ \E script \in Scripts :
       tasks' = << injectScript(script) >>
  /\ call' = [call EXCEPT !.kind = "single"]
  /\ UNCHANGED <<uiVars, probeVars, flags, apiAvailable, registryVars>>

\* UnifiedInjectionEngine.injectMultipleScripts(scripts, tabId): map starts
\* every injectScript call before the first of them resumes
InjectMultipleScripts ==
  /\ call.kind = "none"
  /\ \E n \in 0..MaxBatch :
       \E scripts \in [1..n -> Scripts] :
         /\ \A i \in 1..n : scripts[i] \in BatchScripts(i)
         /\ tasks' = [i \in 1..n |-> injectScript(scripts[i])]
  /\ call' = [call EXCEPT !.kind = "batch"]
  /\ UNCHANGED <<uiVars, probeVars, flags, apiAvailable, registryVars>>

\* a caller outside the engine calls CompliantInjectionStrategy.inject
CompliantInjectDirect ==
  /\ call.kind = "none"
  /\ \E script \in Scripts :
       tasks' = << CompliantInject([NewTask(script) EXCEPT !.tier = "direct"]) >>
  /\ call' = [call EXCEPT !.kind = "direct"]
  /\ UNCHANGED <<uiVars, probeVars, flags, apiAvailable, registryVars>>

\* --------------------------------------------- steps of the compliant path
\* the promise of an inject that refused in its synchronous head settles
CompliantRejected(t) ==
  /\ tasks[t].pc = "C_rejected"
  /\ SetTask(t, CompliantThrew(tasks[t]))
  /\ UNCHANGED <<uiVars, probeVars, flags, apiAvailable, registryVars, call>>

\* inject resumes after `await this.canUseUserScriptsAPI()` and goes on to
\* its first host call: injectViaUserScripts -> registerScriptCompliant ->
\* unregisterScript, or injectViaScripting
CompliantResume(t) ==
  LET k == tasks[t]
  IN  /\ k.pc = "C_avail"
      /\ IF isAvailable
           THEN IF k.script.id \in registeredScripts
                  THEN SetTask(t, [k EXCEPT !.pc = "C_unreg",
                                     !.hostOps = @ \cup {"unregister"}])
                  ELSE SetTask(t, [k EXCEPT !.pc = "C_reg",
                                     !.hostOps = @ \cup {"register"}])
           ELSE IF needsIsolation(k.script)
                  THEN SetTask(t, [k EXCEPT !.pc = "C_bridgeId",
                                     !.hostOps = @ \cup {"executeScript"}])
                  ELSE SetTask(t, [k EXCEPT !.pc = "C_exec",
                                     !.hostOps = @ \cup {"executeScript"}])
      /\ UNCHANGED <<uiVars, probeVars, flags, apiAvailable, registryVars, call>>

\* UserScriptsAPIManager.unregisterScript: chrome.userScripts.unregister
\* settles; a rejection is caught and logged, registration follows either way
UnregisterScript(t) ==
  LET k == tasks[t]
  IN  /\ k.pc = "C_unreg"
      /\ \E ok \in BOOLEAN :
           /\ registeredScripts' =
                IF ok THEN registeredScripts \ {k.script.id}
                ELSE registeredScripts
           /\ hostScripts' =
                IF ok THEN hostScripts \ {k.script.id} ELSE hostScripts
      /\ SetTask(t, [k EXCEPT !.pc = "C_reg", !.hostOps = @ \cup {"register"}])
      /\ UNCHANGED <<uiVars, probeVars, flags, apiAvailable, call>>

\* CompliantInjectionStrategy.injectViaUserScripts: the descriptor it builds
\* and hands to registerScriptCompliant, which registers with its world and
\* timing
injectViaUserScripts(script) ==
  [method |-> "userscripts-dynamic", world |-> "USER_SCRIPT",
   timing |-> convertRunAtTiming(script.runAt)]

\* UserScriptsAPIManager.registerScriptCompliant: chrome.userScripts.register
\* settles
RegisterScriptCompliant(t) ==
  LET k == tasks[t]
  IN  /\ k.pc = "C_reg"
      /\ \E ok \in BOOLEAN :
           IF ok
             THEN /\ registeredScripts' = registeredScripts \cup {k.script.id}
                  /\ hostScripts' = hostScripts \cup {k.script.id}
                  /\ SetTask(t, CompliantReturned(
                                  [k EXCEPT !.ran = "registered",
                                            !.registeredAs =
                                              injectViaUserScripts(k.script)]))
             ELSE /\ registeredScripts' = registeredScripts
                  /\ hostScripts' = hostScripts
                  /\ SetTask(t, CompliantThrew(
                                  [k EXCEPT !.error = "ExecutionFailure"]))
      /\ UNCHANGED <<uiVars, probeVars, flags, apiAvailable, call>>

\* chrome.scripting.executeScript({..., world}) has settled
Executed(k, what, world, ok) ==
  [k EXCEPT !.execs = Append(@, [what |-> what, world |-> world, ok |-> ok])]

\* the strategy's catch for a host call that rejected on path C_ or L_
StrategyThrew(k) ==
  IF k.pc \in {"C_bridgeId", "C_bridgeFile", "C_exec"}
    THEN CompliantThrew([k EXCEPT !.error = "ExecutionFailure"])
    ELSE CompatThrew([k EXCEPT !.error = "ExecutionFailure"])

\* InjectionUtils.injectAPIBridge, first executeScript (window.currentScriptId)
InjectAPIBridgeId(t) ==
  LET k == tasks[t]
  IN  /\ k.pc \in {"C_bridgeId", "L_bridgeId"}
      /\ \E ok \in BOOLEAN :
           LET k1 == Executed(k, "currentScriptId", "ISOLATED", ok)
           IN  IF ok
                 THEN SetTask(t, [k1 EXCEPT !.pc =
                        IF k.pc = "C_bridgeId" THEN "C_bridgeFile"
                        ELSE "L_bridgeFile"])
                 ELSE SetTask(t, StrategyThrew(k1))
      /\ UNCHANGED <<uiVars, probeVars, flags, apiAvailable, registryVars, call>>

\* InjectionUtils.injectAPIBridge, second executeScript (api-bridge.js)
InjectAPIBridgeFile(t) ==
  LET k == tasks[t]
  IN  /\ k.pc \in {"C_bridgeFile", "L_bridgeFile"}
      /\ \E ok \in BOOLEAN :
           LET k1 == Executed(k, "api-bridge.js", "ISOLATED", ok)
           IN  IF ok
                 THEN SetTask(t, [k1 EXCEPT !.pc =
                        IF k.pc = "C_bridgeFile" THEN "C_exec" ELSE "L_exec"])
                 ELSE SetTask(t, StrategyThrew(k1))
      /\ UNCHANGED <<uiVars, probeVars, flags, apiAvailable, registryVars, call>>

\* injectViaScripting: executeScript with the compliant executor settles
InjectViaScripting(t) ==
  LET k == tasks[t]
  IN  /\ k.pc = "C_exec"
      /\ \E ok \in BOOLEAN :
           LET world == getWorldString(needsIsolation(k.script))
               k1 == Executed(k, "script", world, ok)
           IN  IF ok
                 THEN SetTask(t, CompliantReturned(
                                   [k1 EXCEPT !.ran = "compliant-executor"]))
                 ELSE SetTask(t, StrategyThrew(k1))
      /\ UNCHANGED <<uiVars, probeVars, flags, apiAvailable, registryVars, call>>

\* injectWithLegacyMethods: executeScript with the enhanced executor settles;
\* when the host ran the executor, the page decides which of its three
\* methods work
InjectWithLegacyExecutor(t) ==
  LET k == tasks[t]
  IN  /\ k.pc = "L_exec"
      /\ \E ok \in BOOLEAN :
           LET world == getWorldString(needsIsolation(k.script))
               k1 == Executed(k, "script", world, ok)
           IN  IF ok
                 THEN \E tagOk, funcOk, evalOk \in BOOLEAN :
                        LET r == createEnhancedScriptExecutor(tagOk, funcOk,
                                                              evalOk)
                        IN  SetTask(t, CompatReturned(
                                         [k1 EXCEPT !.ran = r.ran,
                                                    !.tried = r.tried]))
                 ELSE SetTask(t, StrategyThrew(k1))
      /\ UNCHANGED <<uiVars, probeVars, flags, apiAvailable, registryVars, call>>

\* ------------------------------------------------------------------- joins
\* the join written with Promise.all: the first rejection ends the batch
BatchJoin_PromiseAll ==
  /\ call.kind = "batch"
  /\ \/ \A t \in Tasks : Settled(tasks[t])
     \/ \E t \in Tasks : tasks[t].outcome = "rejected"
  /\ call' = [kind |-> "batchDone",
              successful |-> Cardinality({t \in Tasks : tasks[t].outcome = "fulfilled"}),
              failed |-> Cardinality({t \in Tasks : tasks[t].outcome = "rejected"}),
              threw |-> \E t \in Tasks : tasks[t].outcome = "rejected"]
  /\ UNCHANGED <<uiVars, probeVars, flags, apiAvailable, registryVars, tasks>>

\* Promise.allSettled has every result: count and log
BatchJoin ==
  /\ call.kind = "batch"
  /\ \A t \in Tasks : Settled(tasks[t])
  /\ call' = [kind |-> "batchDone",
              successful |-> Cardinality({t \in Tasks : tasks[t].outcome = "fulfilled"}),
              failed |-> Cardinality({t \in Tasks : tasks[t].outcome = "rejected"}),
              threw |-> FALSE]
  /\ UNCHANGED <<uiVars, probeVars, flags, apiAvailable, registryVars, tasks>>

\* the awaited call has settled and its caller goes on; the next call can come
CallReturns ==
  /\ call.kind \in {"single", "direct", "batchDone"}
  /\ \A t \in Tasks : Settled(tasks[t])
  /\ call' = [kind |-> "none", successful |-> 0, failed |-> 0, threw |-> FALSE]
  /\ tasks' = << >>
  /\ UNCHANGED <<uiVars, probeVars, flags, apiAvailable, registryVars>>

\* the steps of injectScript call t
TaskStep(t) ==
  \/ CompliantRejected(t)
  \/ CompliantResume(t)
  \/ UnregisterScript(t)
  \/ RegisterScriptCompliant(t)
  \/ InjectAPIBridgeId(t)
  \/ InjectAPIBridgeFile(t)
  \/ InjectViaScripting(t)
  \/ InjectWithLegacyExecutor(t)

Next ==
  \/ InjectScriptCall
  \/ InjectMultipleScripts
  \/ CompliantInjectDirect
  \/ \E t \in Tasks : CompliantRejected(t)
  \/ \E t \in Tasks : CompliantResume(t)
  \/ \E t \in Tasks : UnregisterScript(t)
  \/ \E t \in Tasks : RegisterScriptCompliant(t)
  \/ \E t \in Tasks : InjectAPIBridgeId(t)
  \/ \E t \in Tasks : InjectAPIBridgeFile(t)
  \/ \E t \in Tasks : InjectViaScripting(t)
  \/ \E t \in Tasks : InjectWithLegacyExecutor(t)
  \/ BatchJoin
  \/ CallReturns

Spec == Init /\ [][Next]_vars

\* Every host call returns or throws: the promise a call is suspended on
\* settles, and the event loop resumes the call
\* the event loop resumes the one call in flight
Resume == \E t \in Tasks : TaskStep(t)

\* one injectScript or inject call at a time
LiveNext ==
  \/ InjectScriptCall
  \/ CompliantInjectDirect
  \/ Resume
  \/ CallReturns

LiveSpec == Init /\ [][LiveNext]_vars /\ WF_vars(Resume)

\* ------------------------------------------------- the engine of each build
\* the engine as the store build and the compat build configure it
BuildInit ==
  /\ \E mode \in BuildModeNames : flags = FlagsOfBuild(mode)
  /\ apiAvailable \in BOOLEAN
  /\ registeredScripts = {}
  /\ hostScripts = {}
  /\ call = [kind |-> "none", successful |-> 0, failed |-> 0, threw |-> FALSE]
  /\ tasks = << >>
  /\ now = 0
  /\ listeners = NoListeners
  /\ dispatch = NoDispatch
  /\ TipIdle
  /\ lastCall = NoCall
  /\ BackgroundIdle
  /\ GuidanceIdle
  /\ userScriptsAPICache = NoCache
  /\ clears = 0
  /\ probes = << >>
  /\ selection = [probe |-> 0,
                  script |-> [id |-> 1, content |-> "plain", grant |-> << >>,
                              runAt |-> "", sandbox |-> ""],
                  strategy |-> NoStrategy,
                  score |-> 0]

BuildSpec == BuildInit /\ [][Next]_vars

\* ============================================== the capability probe at work
\* the scripts handed to the selector: every shape of grant list, run-at and
\* sandbox the decision table tells apart
SelectorGrants == {<< >>, <<"none">>, <<"GM_setValue">>, <<"GM_log">>}
SelectorRunAts == {"document-start", "document-idle"}
SelectorSandboxes == {"", "DOM"}
SelectorScripts ==
  {s \in [id : {1}, content : {"plain"}, grant : SelectorGrants,
          runAt : SelectorRunAts, sandbox : SelectorSandboxes] :
     needsIsolation(s) => s.sandbox = ""}

NoSelection ==
  [probe |-> 0,
   script |-> [id |-> 1, content |-> "plain", grant |-> << >>, runAt |-> "",
               sandbox |-> ""],
   strategy |-> NoStrategy,
   score |-> 0]

\* the probe before its first call
ProbeIdle ==
  /\ now = 0
  /\ userScriptsAPICache = NoCache
  /\ clears = 0
  /\ probes = << >>
  /\ selection = NoSelection

\* the engine with no call running
EngineIdle ==
  /\ flags = [f \in FeatureNames |-> FALSE]
  /\ apiAvailable = FALSE
  /\ registeredScripts = {}
  /\ hostScripts = {}
  /\ call = [kind |-> "none", successful |-> 0, failed |-> 0, threw |-> FALSE]
  /\ tasks = << >>

ProbeInit ==
  /\ EngineIdle
  /\ ProbeIdle
  /\ listeners \in ListenerMaps
  /\ dispatch = NoDispatch
  /\ TipIdle
  /\ lastCall = NoCall
  /\ BackgroundIdle
  /\ GuidanceIdle

Probes == DOMAIN probes

SetProbe(i, p) ==
  /\ probes' = [probes EXCEPT ![i] = p]
  /\ userScriptsAPICache' = CacheAfter(p)

\* a caller calls InjectionUtils.canUseUserScriptsAPI() while fewer than
\* limit calls are held
CanUseCall(limit, objects) ==
  /\ Len(probes) < limit
  /\ \E object \in objects :
       LET p == canUseUserScriptsAPI(object)
       IN  /\ probes' = Append(probes, p)
           /\ userScriptsAPICache' = CacheAfter(p)
  /\ UNCHANGED <<uiVars, engineVars, now, listeners, clears, selection>>

CanUseUserScriptsAPICall == CanUseCall(MaxProbes, ObjectAnswers)

\* InjectionStrategySelector.selectStrategy(script): the capability call it
\* makes runs up to its first await, the decision table reads the Promise
SelectStrategyCall ==
  /\ Len(probes) < MaxProbes
  /\ \E script \in SelectorScripts, object \in ObjectAnswers :
       LET p == canUseUserScriptsAPI(object)
           selectedStrategy ==
             selectStrategy(script, checkUserScriptsAPISupport)
       IN  /\ probes' = Append(probes, p)
           /\ userScriptsAPICache' = CacheAfter(p)
           /\ selection' =
                [probe |-> Len(probes) + 1,
                 script |-> script,
                 strategy |-> selectedStrategy,
                 score |-> getStrategyScore(selectedStrategy, script)]
  /\ UNCHANGED <<uiVars, engineVars, now, listeners, clears>>

\* chrome.permissions.contains settles and the check reads
\* chrome.userScripts.register
PermissionAnswerIn(i, permissions, registers) ==
  /\ probes[i].pc = "perm"
  /\ \E permission \in permissions, register \in registers :
       SetProbe(i, AfterPermission(probes[i], permission, register))
  /\ UNCHANGED <<uiVars, engineVars, now, listeners, clears, selection>>

PermissionAnswer(i) == PermissionAnswerIn(i, PermissionAnswers, RegisterAnswers)

\* chrome.userScripts.getScripts settles
FunctionalAnswerIn(i, functionals) ==
  /\ probes[i].pc = "func"
  /\ \E functional \in functionals :
       SetProbe(i, AfterFunctional(probes[i], functional))
  /\ UNCHANGED <<uiVars, engineVars, now, listeners, clears, selection>>

FunctionalAnswer(i) == FunctionalAnswerIn(i, FunctionalAnswers)

\* the setTimeout of the delayed retry fires, RetryDelay ms or more after it
\* was set, and the second check starts
DelayElapsedIn(i, objects) ==
  /\ probes[i].pc = "delay"
  /\ now' = IF now < probes[i].due THEN probes[i].due ELSE now
  /\ \E object \in objects :
       SetProbe(i, CheckStart(probes[i], object))
  /\ UNCHANGED <<uiVars, engineVars, listeners, clears, selection>>

DelayElapsed(i) == DelayElapsedIn(i, ObjectAnswers)

\* every call held has returned and its caller has gone on
ProbesReturn ==
  /\ probes # << >>
  /\ \A i \in Probes : probes[i].pc = "done"
  /\ probes' = << >>
  /\ selection' = NoSelection
  /\ UNCHANGED <<uiVars, engineVars, now, listeners, userScriptsAPICache, clears>>

\* InjectionUtils.clearUserScriptsAPICache()
ClearUserScriptsAPICache ==
  /\ clears < MaxClears
  /\ userScriptsAPICache' = NoCache
  /\ clears' = clears + 1
  /\ UNCHANGED <<uiVars, engineVars, now, listeners, probes, selection>>

\* time passes
Tick ==
  /\ \E d \in TickSteps : now + d <= MaxTime /\ now' = now + d
  /\ UNCHANGED <<uiVars, engineVars, listeners, userScriptsAPICache, clears, probes,
                 selection>>

\* ProbeSpec: the anatomy of a call, whatever the browser answers and whoever
\* listens
ProbeNext ==
  \/ CanUseUserScriptsAPICall
  \/ \E i \in Probes : PermissionAnswer(i)
  \/ \E i \in Probes : FunctionalAnswer(i)
  \/ \E i \in Probes : DelayElapsed(i)
  \/ ProbesReturn
  \/ ClearUserScriptsAPICache
  \/ Tick

ProbeSpec == ProbeInit /\ [][ProbeNext]_vars

\* CacheSpec: calls that overlap, against a browser whose userScripts
\* permission is granted or denied from one answer to the next
CacheInit ==
  /\ EngineIdle
  /\ ProbeIdle
  /\ listeners = NoListeners
  /\ dispatch = NoDispatch
  /\ TipIdle
  /\ lastCall = NoCall
  /\ BackgroundIdle
  /\ GuidanceIdle

CacheNext ==
  \/ CanUseCall(MaxOverlap, {"ok"})
  \/ \E i \in Probes : PermissionAnswerIn(i, {"ok", "denied"}, {"ok"})
  \/ \E i \in Probes : FunctionalAnswerIn(i, {"ok"})
  \/ \E i \in Probes : DelayElapsedIn(i, {"ok"})
  \/ ClearUserScriptsAPICache
  \/ Tick

CacheSpec == CacheInit /\ [][CacheNext]_vars

\* SelectSpec: selectStrategy calls and the probes they start
SelectInit ==
  /\ EngineIdle
  /\ ProbeIdle
  /\ listeners = NoListeners
  /\ dispatch = NoDispatch
  /\ TipIdle
  /\ lastCall = NoCall
  /\ BackgroundIdle
  /\ GuidanceIdle

SelectNext ==
  \/ SelectStrategyCall
  \/ \E i \in Probes : PermissionAnswer(i)
  \/ \E i \in Probes : FunctionalAnswer(i)
  \/ \E i \in Probes : DelayElapsed(i)
  \/ ProbesReturn
  \/ Tick

SelectSpec == SelectInit /\ [][SelectNext]_vars

\* ===================================================== the event bus at work
\* the event types with subscribers and publishers in this program, and the
\* number of handlers one type is given
BusTypes == {"userscripts_permission_denied", "userscripts_unavailable"}
MaxListeners == 2

EmitInit ==
  /\ EngineIdle
  /\ ProbeIdle
  /\ listeners = NoListeners
  /\ dispatch = NoDispatch
  /\ TipIdle
  /\ lastCall = NoCall
  /\ BackgroundIdle
  /\ GuidanceIdle

\* GuidanceEventBus.on(eventType, listener): push, the same function object
\* may be pushed again
On ==
  /\ \E eventType \in BusTypes, h \in Handlers :
       /\ Len(listeners[eventType]) < MaxListeners
       /\ listeners' = [listeners EXCEPT ![eventType] = Append(@, h)]
  /\ UNCHANGED <<engineVars, now, userScriptsAPICache, clears, probes,
                 selection, dispatch, tipVars, appVars>>

\* GuidanceEventBus.off(eventType, listener): remove the first occurrence
Off ==
  /\ \E eventType \in BusTypes, h \in Handlers :
       LET index == indexOf(listeners[eventType], h)
       IN  /\ index > 0
           /\ listeners' =
                [listeners EXCEPT ![eventType] = splice(@, index)]
  /\ UNCHANGED <<engineVars, now, userScriptsAPICache, clears, probes,
                 selection, dispatch, tipVars, appVars>>

\* GuidanceEventBus.emit(eventType, data)
Emit ==
  /\ \E eventType \in BusTypes :
       /\ dispatch' = emit(eventType)
       /\ listeners' =
            [listeners EXCEPT
               ![eventType] = forEach(@, 1, Len(@)).after]
  /\ UNCHANGED <<engineVars, now, userScriptsAPICache, clears, probes,
                 selection, tipVars, appVars>>

\* GuidanceEventBus.clear()
Clear ==
  /\ listeners # NoListeners
  /\ listeners' = NoListeners
  /\ UNCHANGED <<engineVars, now, userScriptsAPICache, clears, probes,
                 selection, dispatch, tipVars, appVars>>

EmitNext == On \/ Off \/ Emit \/ Clear

EmitSpec == EmitInit /\ [][EmitNext]_vars

\* ---- handlers that call on and off while the event is handed to them
\* one event type is enough to see the dispatch loop at work

\* GuidanceEventBus.on(eventType, listener) with any of the handlers
OnAny ==
  /\ \E h \in Handlers \cup ReentrantHandlers :
       /\ Len(listeners["userscripts_unavailable"]) < MaxListeners + 1
       /\ listeners' =
            [listeners EXCEPT !["userscripts_unavailable"] = Append(@, h)]
  /\ UNCHANGED <<engineVars, now, userScriptsAPICache, clears, probes,
                 selection, dispatch, tipVars, appVars>>

\* GuidanceEventBus.emit(eventType); the handlers subscribe no more than
\* MaxListeners + 1 handlers in all
EmitAny ==
  /\ LET ls == listeners["userscripts_unavailable"]
         after == forEach(ls, 1, Len(ls)).after
     IN  /\ Len(after) <= MaxListeners + 1
         /\ listeners' =
              [listeners EXCEPT !["userscripts_unavailable"] = after]
  /\ dispatch' = emit("userscripts_unavailable")
  /\ UNCHANGED <<engineVars, now, userScriptsAPICache, clears, probes,
                 selection, tipVars, appVars>>

ReentrantNext ==
  \/ OnAny
  \/ EmitAny
  \/ Clear

ReentrantSpec == EmitInit /\ [][ReentrantNext]_vars

\* ============================================ the registration wrapper at work
\* what a call to UserScriptsAPIManager leaves behind: the keys of
\* registeredScripts, the ids the host holds, whether the call threw
Registry(map, host, threw) == [map |-> map, host |-> host, threw |-> threw]

\* UserScriptsAPIManager.unregisterScript(scriptId); ok is whether
\* chrome.userScripts.unregister resolves
unregisterScript(map, host, id, ok) ==
  IF ~isAvailable THEN Registry(map, host, FALSE)
  ELSE IF id \in map /\ ok THEN Registry(map \ {id}, host \ {id}, FALSE)
  ELSE Registry(map, host, FALSE)

\* UserScriptsAPIManager.registerScript and registerScriptCompliant: they
\* differ in the code they register, not in their bookkeeping
registerScript(map, host, id, unregOk, regOk) ==
  IF ~isAvailable THEN Registry(map, host, TRUE)
  ELSE LET u == unregisterScript(map, host, id, unregOk)
       IN  IF regOk
             THEN Registry(u.map \cup {id}, u.host \cup {id}, FALSE)
             ELSE Registry(u.map, u.host, TRUE)

\* UserScriptsAPIManager.unregisterAll
unregisterAll(map, host, ok) ==
  IF ~isAvailable THEN Registry(map, host, FALSE)
  ELSE IF ok THEN Registry({}, {}, FALSE)
  ELSE Registry(map, host, FALSE)

\* UserScriptsAPIManager.registerMultipleScripts: the map is written in the
\* loop that builds the list, chrome.userScripts.register is awaited after it
registerMultipleScripts(map, host, ids, regOk) ==
  IF ~isAvailable THEN Registry(map, host, TRUE)
  ELSE IF regOk THEN Registry(map \cup ids, host \cup ids, FALSE)
  ELSE Registry(map \cup ids, host, TRUE)

\* UserScriptsAPIManager.getScriptStatus(scriptId)
getScriptStatus(id) ==
  IF id \in registeredScripts THEN "registered" ELSE "not-registered"

\* a call has returned or thrown
Returned(op, ids, r) ==
  /\ registeredScripts' = r.map
  /\ hostScripts' = r.host
  /\ lastCall' = [op |-> op, ids |-> ids, threw |-> r.threw]

RegisterScriptCall ==
  /\ \E id \in ScriptIds, unregOk, regOk \in BOOLEAN :
       Returned("registerScript", {id},
                registerScript(registeredScripts, hostScripts, id, unregOk, regOk))
  /\ UNCHANGED <<flags, apiAvailable, call, tasks, probeVars, dispatch,
                 tipVars, scriptCache, gmScriptCache, tabLoad, gmResponse,
                 guidanceVars>>

RegisterScriptCompliantCall ==
  /\ \E id \in ScriptIds, unregOk, regOk \in BOOLEAN :
       Returned("registerScriptCompliant", {id},
                registerScript(registeredScripts, hostScripts, id, unregOk, regOk))
  /\ UNCHANGED <<flags, apiAvailable, call, tasks, probeVars, dispatch,
                 tipVars, scriptCache, gmScriptCache, tabLoad, gmResponse,
                 guidanceVars>>

RegisterMultipleScriptsCall ==
  /\ \E ids \in SUBSET ScriptIds, regOk \in BOOLEAN :
       Returned("registerMultipleScripts", ids,
                registerMultipleScripts(registeredScripts, hostScripts, ids, regOk))
  /\ UNCHANGED <<flags, apiAvailable, call, tasks, probeVars, dispatch,
                 tipVars, scriptCache, gmScriptCache, tabLoad, gmResponse,
                 guidanceVars>>

UnregisterScriptCall ==
  /\ \E id \in ScriptIds, ok \in BOOLEAN :
       Returned("unregisterScript", {id},
                unregisterScript(registeredScripts, hostScripts, id, ok))
  /\ UNCHANGED <<flags, apiAvailable, call, tasks, probeVars, dispatch,
                 tipVars, scriptCache, gmScriptCache, tabLoad, gmResponse,
                 guidanceVars>>

UnregisterAllCall ==
  /\ \E ok \in BOOLEAN :
       Returned("unregisterAll", {},
                unregisterAll(registeredScripts, hostScripts, ok))
  /\ UNCHANGED <<flags, apiAvailable, call, tasks, probeVars, dispatch,
                 tipVars, scriptCache, gmScriptCache, tabLoad, gmResponse,
                 guidanceVars>>

RegistryNext ==
  \/ RegisterScriptCall
  \/ RegisterScriptCompliantCall
  \/ RegisterMultipleScriptsCall
  \/ UnregisterScriptCall
  \/ UnregisterAllCall

RegistrySpec == Init /\ [][RegistryNext]_vars

\* ==================================================== the background at work
\* the scripts getScripts() reads from storage: at most MaxStored, numbered by
\* position, each enabled or not and matching the tab's URL or not
MaxStored == 2

StoredLists ==
  LET StoredScripts(i) ==
        [script : BatchScripts(i), enabled : BOOLEAN, match : BOOLEAN]
  IN
  UNION {{l \in [1..n -> UNION {StoredScripts(i) : i \in 1..MaxStored}] :
            \A i \in 1..n : l[i] \in StoredScripts(i)} : n \in 0..MaxStored}

\* matches(tab.url, script.meta.match), decided per stored script
matches(stored) == stored.match

BackgroundInit ==
  /\ flags \in [FeatureNames -> BOOLEAN]
  /\ apiAvailable \in BOOLEAN
  /\ registeredScripts = {}
  /\ hostScripts = {}
  /\ call = [kind |-> "none", successful |-> 0, failed |-> 0, threw |-> FALSE]
  /\ tasks = << >>
  /\ ProbeIdle
  /\ listeners = NoListeners
  /\ dispatch = NoDispatch
  /\ TipIdle
  /\ lastCall = NoCall
  /\ BackgroundIdle
  /\ GuidanceIdle

\* chrome.tabs.onUpdated with status 'loading' and an http(s) URL: read the
\* scripts, keep the enabled ones, parse and cache each in the resource
\* manager, then await preloadScriptResources
TabUpdated ==
  /\ tabLoad.pc \in {"idle", "done", "threw"}
  /\ call.kind = "none"
  /\ \E scriptsFromStorage \in StoredLists :
       LET enabledScripts == SelectSeq(scriptsFromStorage,
                                       LAMBDA x : x.enabled)
       IN  /\ tabLoad' = [pc |-> "preload", scripts |-> enabledScripts,
                          index |-> 1, attempted |-> {}]
           /\ scriptCache' = scriptCache \cup
                {enabledScripts[i].script.id : i \in 1..Len(enabledScripts)}
  /\ UNCHANGED <<engineVars, probeVars, dispatch, tipVars, lastCall,
                 gmScriptCache, gmResponse,
                 guidanceVars>>

\* preloadScriptResources settles: it rejects when a storage read of
\* cacheResources rejects, and the listener ends there
PreloadSettles ==
  /\ tabLoad.pc = "preload"
  /\ \E ok \in BOOLEAN :
       tabLoad' = [tabLoad EXCEPT !.pc = IF ok THEN "loop" ELSE "threw"]
  /\ UNCHANGED <<engineVars, probeVars, dispatch, tipVars, lastCall,
                 scriptCache, gmScriptCache, gmResponse,
                 guidanceVars>>

\* the loop at a script that is not injected: disabled or not matching
LoopSkips ==
  /\ tabLoad.pc = "loop"
  /\ tabLoad.index <= Len(tabLoad.scripts)
  /\ LET x == tabLoad.scripts[tabLoad.index]
     IN  ~(x.enabled /\ matches(x))
  /\ tabLoad' = [tabLoad EXCEPT !.index = @ + 1]
  /\ UNCHANGED <<engineVars, probeVars, dispatch, tipVars, lastCall,
                 scriptCache, gmScriptCache, gmResponse,
                 guidanceVars>>

\* the loop at a matching script: `await injectScript(script, tabId)`
LoopInjects ==
  /\ tabLoad.pc = "loop"
  /\ tabLoad.index <= Len(tabLoad.scripts)
  /\ call.kind = "none"
  /\ LET x == tabLoad.scripts[tabLoad.index]
     IN  /\ x.enabled /\ matches(x)
         /\ tasks' = << injectScript(x.script) >>
         /\ tabLoad' = [tabLoad EXCEPT
                          !.pc = "injecting",
                          !.attempted = @ \cup {x.script.id}]
  /\ call' = [call EXCEPT !.kind = "tab"]
  /\ UNCHANGED <<flags, apiAvailable, registryVars, probeVars, dispatch,
                 tipVars, lastCall, scriptCache, gmScriptCache, gmResponse,
                 guidanceVars>>

\* the awaited injectScript has settled: the loop goes on when it returned;
\* when it threw nothing catches the exception and the listener ends
LoopResumes ==
  /\ tabLoad.pc = "injecting"
  /\ Settled(tasks[1])
  /\ tabLoad' = IF tasks[1].outcome = "fulfilled"
                  THEN [tabLoad EXCEPT !.pc = "loop", !.index = @ + 1]
                  ELSE [tabLoad EXCEPT !.pc = "threw"]
  /\ tasks' = << >>
  /\ call' = [call EXCEPT !.kind = "none"]
  /\ UNCHANGED <<flags, apiAvailable, registryVars, probeVars, dispatch,
                 tipVars, lastCall, scriptCache, gmScriptCache, gmResponse,
                 guidanceVars>>

\* the loop has passed the last script
LoopEnds ==
  /\ tabLoad.pc = "loop"
  /\ tabLoad.index > Len(tabLoad.scripts)
  /\ tabLoad' = [tabLoad EXCEPT !.pc = "done"]
  /\ UNCHANGED <<engineVars, probeVars, dispatch, tipVars, lastCall,
                 scriptCache, gmScriptCache, gmResponse,
                 guidanceVars>>

\* the GM_* actions that look the script up
\* GMAPIManager.handleGMGetResourceText / handleGMGetResourceURL /
\* handleGMXMLHttpRequest: the script is looked up in the manager's own
\* cache; found is whether the resource is stored or the request allowed
\* and answered
handleAPICall(action, scriptId, found) ==
  IF scriptId \notin gmScriptCache
    THEN [action |-> action, scriptId |-> scriptId, status |-> "error",
          error |-> "Script not found"]
  ELSE IF found
    THEN [action |-> action, scriptId |-> scriptId, status |-> "success",
          error |-> "none"]
  ELSE [action |-> action, scriptId |-> scriptId, status |-> "error",
        error |-> "other"]

\* chrome.runtime.onMessage with a GM_* action and a payload
GMMessage ==
  /\ \E action \in {"GM_getResourceText", "GM_getResourceURL",
                    "GM_xmlhttpRequest"},
        scriptId \in ScriptIds, found \in BOOLEAN :
       gmResponse' = handleAPICall(action, scriptId, found)
  /\ UNCHANGED <<engineVars, probeVars, dispatch, tipVars, lastCall,
                 scriptCache, gmScriptCache, tabLoad,
                 guidanceVars>>

BackgroundNext ==
  \/ TabUpdated
  \/ PreloadSettles
  \/ LoopSkips
  \/ LoopInjects
  \/ Resume
  \/ LoopResumes
  \/ LoopEnds
  \/ GMMessage

BackgroundSpec == BackgroundInit /\ [][BackgroundNext]_vars

\* ================================================ the guidance queue at work
\* addGuidance is called at most MaxGuidance times
MaxGuidance == 3

\* showNextGuidance that does not look at isShowing
showNextGuidance_NoGuard(queue) ==
  IF Len(queue) = 0
    THEN /\ guidanceQueue' = queue
         /\ UNCHANGED <<isShowing, inFlight>>
    ELSE /\ isShowing' = TRUE
         /\ guidanceQueue' = Tail(queue)
         /\ inFlight' = inFlight \cup {Head(queue)}

\* showNextGuidance up to its first await, queue being guidanceQueue when it
\* is called: return when the queue is empty or a message is being shown,
\* else set isShowing and shift the queue
showNextGuidance(queue) ==
  IF Len(queue) = 0 \/ isShowing
    THEN /\ guidanceQueue' = queue
         /\ UNCHANGED <<isShowing, inFlight>>
    ELSE /\ isShowing' = TRUE
         /\ guidanceQueue' = Tail(queue)
         /\ inFlight' = inFlight \cup {Head(queue)}

\* UserGuidanceService.addGuidance(guidance): push, and show at once when
\* nothing is being shown
AddGuidance ==
  /\ addedGuidance < MaxGuidance
  /\ addedGuidance' = addedGuidance + 1
  /\ LET phase == IF isShowing THEN "showing"
                  ELSE IF guidanceTimers > 0 THEN "gap"
                  ELSE "idle"
         guidance == [id |-> addedGuidance + 1, addedWhile |-> phase]
         queue == Append(guidanceQueue, guidance)
     IN  IF ~isShowing
           THEN showNextGuidance(queue)
           ELSE /\ guidanceQueue' = queue
                /\ UNCHANGED <<isShowing, inFlight>>
  /\ UNCHANGED <<engineVars, probeVars, dispatch, tipVars, lastCall, scriptCache, gmScriptCache, tabLoad, gmResponse,
                 guidanceTimers, shownGuidance>>

\* showNextGuidance resumes after showChromeNotification and
\* storeGuidanceForUI, each of which catches its own failure: clear
\* isShowing and, when the queue is not empty, set the 2 s timer
GuidanceShown ==
  /\ \E m \in inFlight, notified, stored \in BOOLEAN :
       /\ shownGuidance' =
            Append(shownGuidance, [id |-> m.id, addedWhile |-> m.addedWhile,
                                   notified |-> notified, stored |-> stored,
                                   alone |-> inFlight = {m}])
       /\ inFlight' = inFlight \ {m}
  /\ isShowing' = FALSE
  /\ guidanceTimers' =
       IF Len(guidanceQueue) > 0 THEN guidanceTimers + 1 ELSE guidanceTimers
  /\ UNCHANGED <<engineVars, probeVars, dispatch, tipVars, lastCall, scriptCache, gmScriptCache, tabLoad, gmResponse,
                 guidanceQueue, addedGuidance>>

\* the timer set after a message fires: showNextGuidance()
GuidanceTimerFires ==
  /\ guidanceTimers > 0
  /\ guidanceTimers' = guidanceTimers - 1
  /\ showNextGuidance(guidanceQueue)
  /\ UNCHANGED <<engineVars, probeVars, dispatch, tipVars, lastCall, scriptCache, gmScriptCache, tabLoad, gmResponse,
                 shownGuidance, addedGuidance>>

GuidanceNext ==
  \/ AddGuidance
  \/ GuidanceShown
  \/ GuidanceTimerFires

\* the host calls of a display settle and a timer that was set fires
GuidanceSpec ==
  /\ EmitInit
  /\ [][GuidanceNext]_vars
  /\ WF_vars(GuidanceShown)
  /\ WF_vars(GuidanceTimerFires)

\* ===================================================== the user tip at work
TIP_EXPIRATION_MS == 20000
FadeDelay == 300

\* UserNotifier.showTip is called at most MaxTips times, each call at the
\* time of the last event or TipGap ms later
MaxTips == 3
TipGap == 100
TipGaps == {0, TipGap}

TipInit ==
  /\ EngineIdle
  /\ ProbeIdle
  /\ listeners = NoListeners
  /\ dispatch = NoDispatch
  /\ TipIdle
  /\ lastCall = NoCall
  /\ BackgroundIdle
  /\ GuidanceIdle

\* the timers that are due first
DueTimers == {t \in tipTimers : \A u \in tipTimers : t.due <= u.due}

\* UserTipUI.hideTip(element, immediate)
hideTip(ui, tip, immediate, at) ==
  IF immediate
    THEN [ui EXCEPT
            !.element = IF @.tip = tip
                          THEN [tip |-> NoTip, fading |-> FALSE] ELSE @,
            !.storage = NoTip,
            !.current = NoTip]
    ELSE [ui EXCEPT
            !.element = IF @.tip = tip THEN [@ EXCEPT !.fading = TRUE] ELSE @,
            !.timers = @ \cup {[kind |-> "cleanup", tip |-> tip,
                                due |-> at + FadeDelay]}]

\* UserTipUI.showTip(tip), called at time `at` with the tip whose timestamp
\* is `tip`
showTip(ui, tip, at) ==
  IF ui.current = tip
    THEN ui
    ELSE LET ui1 == [ui EXCEPT !.current = tip,
                               !.element = [tip |-> tip, fading |-> FALSE]]
             remainingTime == TIP_EXPIRATION_MS - (at - tip)
         IN  IF remainingTime > 0
               THEN [ui1 EXCEPT
                       !.timers = @ \cup {[kind |-> "expire", tip |-> tip,
                                           due |-> at + remainingTime]}]
               ELSE hideTip(ui1, tip, TRUE, at)

\* the state UserTipUI works on
TipUi ==
  [storage |-> tipStorage, current |-> currentTipId, element |-> tipElement,
   timers |-> tipTimers]

SetTipUi(ui) ==
  /\ tipStorage' = ui.storage
  /\ currentTipId' = ui.current
  /\ tipElement' = ui.element
  /\ tipTimers' = ui.timers

\* UserNotifier.showTip(message): the tip is stored with the current time
\* and the storage change listener of the UI shows it
ShowTipCall ==
  /\ tipsShown < MaxTips
  /\ \E gap \in TipGaps :
       /\ \A t \in tipTimers : now + gap <= t.due
       /\ now' = now + gap
       /\ SetTipUi(showTip([TipUi EXCEPT !.storage = now + gap],
                           now + gap, now + gap))
  /\ tipsShown' = tipsShown + 1
  /\ UNCHANGED <<engineVars, listeners, userScriptsAPICache, clears, probes,
                 selection, dispatch, appVars>>

\* the timer set by showTip fires: hide the tip if it is still the current
\* one
ExpireTimerFires ==
  /\ \E t \in DueTimers :
       /\ t.kind = "expire"
       /\ now' = IF now < t.due THEN t.due ELSE now
       /\ LET ui == [TipUi EXCEPT !.timers = @ \ {t}]
           IN  IF currentTipId = t.tip
                 THEN SetTipUi(hideTip(ui, t.tip, FALSE, now'))
                 ELSE SetTipUi(ui)
  /\ UNCHANGED <<engineVars, listeners, userScriptsAPICache, clears, probes,
                 selection, dispatch, tipsShown, appVars>>

\* the timer set by hideTip fires: cleanup()
CleanupTimerFires ==
  /\ \E t \in DueTimers :
       /\ t.kind = "cleanup"
       /\ now' = IF now < t.due THEN t.due ELSE now
       /\ SetTipUi(hideTip([TipUi EXCEPT !.timers = @ \ {t}],
                           t.tip, TRUE, now'))
  /\ UNCHANGED <<engineVars, listeners, userScriptsAPICache, clears, probes,
                 selection, dispatch, tipsShown, appVars>>

TipTimerFires == ExpireTimerFires \/ CleanupTimerFires

TipNext ==
  \/ ShowTipCall
  \/ ExpireTimerFires
  \/ CleanupTimerFires

\* a timer that is due fires
TipSpec == TipInit /\ [][TipNext]_vars /\ WF_vars(TipTimerFires)

\* ================================================================== claims
Strict == EngineMode = "strict-compliant"
Hybrid == EngineMode = "hybrid"
Permissive == EngineMode = "compatibility"

\* the tasks that are injectScript calls (a direct strategy call has no stages)
InjectScriptTasks == {t \in Tasks : tasks[t].stages # << >>}

Unsafe(script) == ~validateScriptContent(script).safe

\* C1: in strict mode an injectScript call for a script whose validation is
\* unsafe ends rejected with the validation error, and neither strategy's
\* inject has run nor has any host call (register, unregister, executeScript)
\* been made for it.
C1_StrictRejectsUnsafeBeforeExecution ==
  \A t \in InjectScriptTasks :
    (Strict /\ Unsafe(tasks[t].script)) =>
      /\ tasks[t].outcome = "rejected"
      /\ tasks[t].error = "ValidationError"
      /\ tasks[t].compliantCalls = 0
      /\ tasks[t].compatCalls = 0
      /\ tasks[t].legacyCalls = 0
      /\ tasks[t].hostOps = {}
      /\ tasks[t].ran = "none"

C1_Witness ==
  \E t \in InjectScriptTasks :
    /\ Strict
    /\ Unsafe(tasks[t].script)
    /\ tasks[t].outcome = "rejected"
    /\ "validation-failed" \in tasks[t].log

\* C2: in strict mode, once the compliant strategy has thrown, the call is
\* rejected with that execution error; the permissive strategy is never
\* called and no emergency attempt is made, whatever evalFallback is.
C2_StrictNoFallback ==
  \A t \in InjectScriptTasks :
    Strict =>
      /\ tasks[t].compatCalls = 0
      /\ tasks[t].legacyCalls = 0
      /\ "permissive" \notin {tasks[t].stages[i] : i \in 1..Len(tasks[t].stages)}
      /\ "emergency" \notin {tasks[t].stages[i] : i \in 1..Len(tasks[t].stages)}
      /\ (tasks[t].results # << >> /\ tasks[t].results[1] = "threw") =>
           /\ tasks[t].outcome = "rejected"
           /\ tasks[t].error = "ExecutionFailure"
           /\ tasks[t].compliantCalls = 1

C2_Witness ==
  \E t \in InjectScriptTasks :
    /\ Strict
    /\ isFeatureEnabled("evalFallback")
    /\ tasks[t].results = <<"threw">>
    /\ tasks[t].outcome = "rejected"

\* C3: within one injectScript call CompliantInjectionStrategy.inject runs
\* at most once and no tier that failed is attempted again (the permissive
\* strategy runs at most once as well).
C3_CompliantAtMostOnce ==
  \A t \in InjectScriptTasks :
    /\ tasks[t].compliantCalls <= 1
    /\ tasks[t].compatCalls <= 1

\* the execution tiers the engine entered, in order; results[i] is how the
\* strategy call of the i-th of them ended
IsTier(s) == s \in {"compliant", "permissive", "emergency"}
TierStages(k) == SelectSeq(k.stages, IsTier)
StageSet(k) == {k.stages[i] : i \in 1..Len(k.stages)}
TierThrew(k, tier) ==
  \E i \in 1..Len(k.results) :
    TierStages(k)[i] = tier /\ k.results[i] = "threw"
TierReturned(k, tier) ==
  \E i \in 1..Len(k.results) :
    TierStages(k)[i] = tier /\ k.results[i] = "returned"

\* C4 (as claimed): the selector is invoked only after the validation stage
\* of the call has finished, and never for a script strict mode rejects.
C4_SelectAfterValidation ==
  \A t \in InjectScriptTasks :
    Strict =>
      /\ \A i \in 1..Len(tasks[t].stages) :
           tasks[t].stages[i] = "select" =>
             \E j \in 1..(i - 1) : tasks[t].stages[j] = "validate"
      /\ tasks[t].error = "ValidationError" => tasks[t].strategy = NoStrategy

\* C4 (amended): every injectScript call first invokes the selector and
\* attaches its descriptor, then (strict mode only) validates, then executes;
\* a script strict mode rejects has a descriptor attached and no execution
\* tier entered.
C4_SelectThenValidateThenExecute ==
  \A t \in InjectScriptTasks :
    LET k == tasks[t]
        first == IF Strict THEN 3 ELSE 2
    IN  /\ k.stages[1] = "select"
        /\ k.strategy = selectStrategy(k.script, checkUserScriptsAPISupport)
        /\ \A i \in 2..Len(k.stages) : k.stages[i] # "select"
        /\ Strict => (Len(k.stages) >= 2 /\ k.stages[2] = "validate")
        /\ ~Strict => "validate" \notin StageSet(k)
        /\ \A i \in 1..Len(k.stages) : IsTier(k.stages[i]) <=> i >= first
        /\ (k.compliantCalls > 0 \/ k.hostOps # {}) => Len(k.stages) >= first
        /\ k.error = "ValidationError" =>
             (k.outcome = "rejected" /\ Len(k.stages) = 2)

C4_Witness ==
  \E t \in InjectScriptTasks :
    /\ Strict
    /\ tasks[t].error = "ValidationError"
    /\ tasks[t].outcome = "rejected"
    /\ tasks[t].strategy # NoStrategy
    /\ tasks[t].stages = <<"select", "validate">>

\* C5: in hybrid mode, when the compliant strategy threw and the permissive
\* strategy then returned, injectScript is fulfilled, the fallback is logged
\* as used and no emergency attempt was made.
C5_HybridFallbackSucceeds ==
  \A t \in InjectScriptTasks :
    (Hybrid /\ tasks[t].results = <<"threw", "returned">>) =>
      /\ tasks[t].outcome = "fulfilled"
      /\ "fallback-true" \in tasks[t].log
      /\ tasks[t].stages = <<"select", "compliant", "permissive">>
      /\ tasks[t].compatCalls = 1

C5_Witness ==
  \E t \in InjectScriptTasks :
    /\ Hybrid
    /\ tasks[t].results = <<"threw", "returned">>
    /\ tasks[t].outcome = "fulfilled"
    /\ tasks[t].ran # "none"

\* what C6 asks of a call whose permissive attempt threw, given whether the
\* emergency escalation applies to it
AfterPermissiveThrew(k, escalates) ==
  IF escalates
    THEN /\ \/ TierStages(k) = <<"compliant", "permissive", "emergency">>
            \/ TierStages(k) = <<"permissive", "emergency">>
         /\ k.compatCalls = 2
         /\ Settled(k) =>
              /\ Len(k.results) = Len(TierStages(k))
              /\ k.outcome = "rejected" <=> TierThrew(k, "emergency")
    ELSE /\ "emergency" \notin StageSet(k)
         /\ k.compatCalls = 1
         /\ k.outcome = "rejected"

\* C6 (as claimed): in hybrid and in permissive mode alike, after the
\* permissive attempt threw, exactly one further attempt is made iff
\* evalFallback is enabled, and the call fails iff that attempt throws too.
C6_EmergencyInHybridAndPermissive ==
  \A t \in InjectScriptTasks :
    (~Strict /\ TierThrew(tasks[t], "permissive")) =>
      AfterPermissiveThrew(tasks[t], isFeatureEnabled("evalFallback"))

\* C6 (amended): the emergency attempt exists in hybrid mode only; in
\* permissive (legacy-injection) mode the call fails at once when the
\* permissive strategy throws, whatever evalFallback is.
C6_EmergencyInHybridOnly ==
  \A t \in InjectScriptTasks :
    (~Strict /\ TierThrew(tasks[t], "permissive")) =>
      AfterPermissiveThrew(tasks[t],
                           Hybrid /\ isFeatureEnabled("evalFallback"))

C6_Witness ==
  \E t \in InjectScriptTasks :
    /\ Hybrid
    /\ isFeatureEnabled("evalFallback")
    /\ tasks[t].results = <<"threw", "threw", "returned">>
    /\ tasks[t].outcome = "fulfilled"

\* C7: outside strict mode validation issues alone fail nothing: no call and
\* no compliant-strategy run ends with the validation error, and an unsafe
\* script has a strategy selected and the compliant strategy started on it.
C7_NonStrictIgnoresValidation ==
  \A t \in Tasks :
    ~Strict =>
      /\ tasks[t].error # "ValidationError"
      /\ tasks[t].pc # "C_rejected"
      /\ (t \in InjectScriptTasks /\ Unsafe(tasks[t].script)) =>
           /\ tasks[t].strategy # NoStrategy
           /\ tasks[t].compliantCalls >= 1
           /\ tasks[t].hostOps = {} => tasks[t].pc = "C_avail"

C7_Witness ==
  \E t \in InjectScriptTasks :
    /\ ~Strict
    /\ Unsafe(tasks[t].script)
    /\ tasks[t].outcome = "fulfilled"
    /\ tasks[t].results = <<"returned">>

\* C8: injectScript is never fulfilled when no execution method ran the
\* script.
C8_FulfilledOnlyIfRan ==
  \A t \in InjectScriptTasks :
    tasks[t].outcome = "fulfilled" => tasks[t].ran # "none"

\* C9: a batch starts one injection per script, never throws, and reports
\* succeeded + failed = N; no item's failure stops another item: every
\* unsettled item can take its next step, and the join comes once all settled.
C9_BatchAlwaysCompletes ==
  /\ call.kind \in {"batch", "batchDone"} =>
       \A t \in Tasks :
         /\ tasks[t].stages # << >>
         /\ tasks[t].script.id = t
         /\ ~Settled(tasks[t]) => ENABLED TaskStep(t)
  /\ (call.kind = "batch" /\ \A t \in Tasks : Settled(tasks[t])) =>
       ENABLED BatchJoin
  /\ call.kind = "batchDone" =>
       /\ ~call.threw
       /\ \A t \in Tasks : Settled(tasks[t])
       /\ call.successful + call.failed = Len(tasks)
       /\ call.successful =
            Cardinality({t \in Tasks : tasks[t].outcome = "fulfilled"})

C9_Witness ==
  /\ call.kind = "batchDone"
  /\ Len(tasks) >= 2
  /\ tasks[1].outcome = "rejected"
  /\ tasks[2].outcome = "fulfilled"
  /\ call.successful >= 1
  /\ call.failed >= 1

UnsafeItems == {t \in Tasks : Unsafe(tasks[t].script)}

\* C10 (as claimed): in permissive mode a batch in which k items fail
\* validation and the others execute normally reports k failed and N - k
\* succeeded.
C10_PermissiveValidationFailuresCounted ==
  (/\ call.kind = "batchDone"
   /\ Permissive
   /\ \A t \in Tasks \ UnsafeItems : tasks[t].outcome = "fulfilled") =>
    /\ call.failed = Cardinality(UnsafeItems)
    /\ call.successful = Len(tasks) - Cardinality(UnsafeItems)

\* C10 (amended): k failed and N - k succeeded is the report in strict mode;
\* in permissive and hybrid mode failing validation fails no item, and a
\* batch in which no host call of any item rejects reports N succeeded and
\* 0 failed; either way every item is reported, whatever the positions of
\* the unsafe items.
C10_BatchCountsFollowMode ==
  call.kind = "batchDone" =>
    /\ call.successful + call.failed = Len(tasks)
    /\ (Strict /\ \A t \in Tasks \ UnsafeItems : tasks[t].outcome = "fulfilled") =>
         /\ call.failed = Cardinality(UnsafeItems)
         /\ call.successful = Len(tasks) - Cardinality(UnsafeItems)
    /\ (~Strict /\ \A t \in Tasks : tasks[t].error # "ExecutionFailure") =>
         /\ call.failed = 0
         /\ call.successful = Len(tasks)

C10_Witness ==
  /\ call.kind = "batchDone"
  /\ Permissive
  /\ Len(tasks) >= 2
  /\ Unsafe(tasks[2].script)
  /\ ~Unsafe(tasks[1].script)
  /\ call.successful = Len(tasks)
  /\ call.failed = 0

\* ------------------------------------------------- capability probe claims
ProbeDone(i) == probes[i].pc = "done"

\* the calls that ran the layered check (a cache miss) and are done
Probed == {i \in Probes : ProbeDone(i) /\ ~probes[i].hit}

\* C11: of two canUseUserScriptsAPI calls made less than 30 000 ms apart, with
\* no cache clear between them, the second is answered from the cache: it
\* runs no layered check, waits for no delay, emits no guidance event, and it
\* returns what the first returned.
C11_SecondCallWithinTTLIsCached ==
  \A p, q \in Probes :
    (/\ p < q
     /\ probes[q].start - probes[p].start < CACHE_DURATION
     /\ probes[q].epoch = probes[p].epoch)
    => /\ probes[q].hit
       /\ probes[q].checks = 0
       /\ probes[q].events = 0
       /\ (ProbeDone(p) /\ ProbeDone(q)
             => probes[q].result = probes[p].result)

\* C12: two calls of which the second began while the first was still
\* probing return the same availability value, and the cache holds that value
\* once both are done.
C12_ConcurrentCallersAgree ==
  \A q \in Probes : \A p \in probes[q].overlaps :
    (ProbeDone(p) /\ ProbeDone(q))
    => /\ probes[p].result = probes[q].result
       /\ (userScriptsAPICache.set
             => BoolName(userScriptsAPICache.available) = probes[q].result)

\* the last layered check of call i passed every layer
LastCheckPassed(i) == probes[i].verdict = "passed"

\* C13: a call that misses the cache runs the layered check once; it waits
\* the delay and runs the check a second time if and only if the immediate
\* check reported unavailable; no call runs more than two checks; the result
\* of the last check is the value returned and, with the time the call
\* started, the value cached.
C13_Step ==
  \A i \in DOMAIN probes' :
    LET p == probes'[i]
        fresh == i \notin DOMAIN probes
    IN  /\ p.checks <= 2
        /\ p.hit => p.checks = 0
        /\ p.pc = "delay" => p.checks = 1 /\ p.first = "false"
        /\ p.checks = 2 => p.first = "false"
        /\ (~fresh /\ probes[i].checks = 1 /\ p.checks = 2)
             => probes[i].pc = "delay" /\ now' >= probes[i].due
        /\ (p.pc = "done" /\ ~p.hit)
             => /\ p.checks >= 1
                /\ p.first = "true" => p.checks = 1
                /\ p.result = BoolName(p.verdict = "passed")
        /\ (p.pc = "done" /\ ~p.hit /\ (fresh \/ probes[i].pc # "done"))
             => userScriptsAPICache' =
                  [set |-> TRUE, available |-> p.result = "true",
                   timestamp |-> p.start]

C13_OneCheckOneRetry == [][C13_Step]_vars

C13_Witness ==
  \E i \in Probed :
    /\ probes[i].checks = 2
    /\ probes[i].first = "false"
    /\ probes[i].result = "true"
    /\ userScriptsAPICache = [set |-> TRUE, available |-> TRUE,
                              timestamp |-> probes[i].start]
    /\ now >= probes[i].start + RetryDelay

\* C14 as claimed: canUseUserScriptsAPI never rejects, and a check in which
\* any layer raised an exception reports the primitive unavailable.
C14_AnyLayerExceptionIsUnavailable ==
  \A i \in Probes :
    /\ probes[i].outcome # "rejected"
    /\ (i \in Probed /\ probes[i].threw # {}) => probes[i].result = "false"

\* C14: canUseUserScriptsAPI never rejects; a check in which the object,
\* the register or the functional layer raised an exception reports
\* unavailable; an exception of the permission query is swallowed, the check
\* goes on with the register and functional layers and reports what they
\* find.
C14_PermissionExceptionIsSkipped ==
  \A i \in Probes :
    /\ probes[i].outcome # "rejected"
    /\ (i \in Probed
        /\ probes[i].threw \cap {"object", "register", "functional"} # {})
         => probes[i].result = "false"
    /\ (i \in Probed /\ probes[i].threw = {"permission"})
         => /\ probes[i].verdict \in {"passed", "register_method_missing"}
            /\ probes[i].result = BoolName(LastCheckPassed(i))

C14_Witness ==
  \E i \in Probed :
    /\ probes[i].threw = {"permission"}
    /\ probes[i].result = "true"
    /\ probes[i].outcome = "fulfilled"

\* C15: the first canUseUserScriptsAPI call made after
\* clearUserScriptsAPICache has returned probes afresh; it is not answered
\* from the cache, also when a call that was probing at the moment of the
\* clear has completed in between.
C15_FreshProbeAfterClear ==
  \A q \in Probes :
    (/\ probes[q].epoch > 0
     /\ \A p \in Probes : p < q => probes[p].epoch < probes[q].epoch)
    => ~probes[q].hit

\* --------------------------------------------------------- selector claims
\* a selectStrategy call has returned and the probe it started is done
Selected == selection.probe # 0 /\ ProbeDone(selection.probe)

\* what the capability check begun by the selectStrategy call reported
Reported == probes[selection.probe].result

RegistrationMethods == {"userscripts-api", "userscripts-dynamic"}

HasGrant(script) ==
  \E i \in 1..Len(script.grant) : script.grant[i] # "none"

HasPrivilegedGrant(script) ==
  \E i \in 1..Len(script.grant) : script.grant[i] \in SpecialAPIs

DeclaredTiming(script) == convertRunAtTiming(script.runAt)

\* C16: selectStrategy returns a registration method only when the
\* capability check reports the primitive available; when it reports
\* unavailable, a script that requires isolation (sandbox not raw, or a grant
\* other than "none") gets the isolated content-script strategy with its
\* declared timing.
C16_RegistrationOnlyWhenAvailable ==
  Selected =>
    /\ selection.strategy.method \in RegistrationMethods => Reported = "true"
    /\ (/\ Reported = "false"
        /\ (selection.script.sandbox \notin {"", "raw"}
            \/ HasGrant(selection.script)))
         => selection.strategy =
              [method |-> "content-script", world |-> "USER_SCRIPT",
               timing |-> DeclaredTiming(selection.script)]

\* C17: when the capability check reports the primitive available, a script
\* with a privileged grant gets userscripts-dynamic in the USER_SCRIPT world
\* at document_start if it declares run-at document-start, and userscripts-api
\* in the USER_SCRIPT world with its declared timing otherwise.
C17_PrivilegedGrantSelectsRegistration ==
  (Selected /\ Reported = "true" /\ HasPrivilegedGrant(selection.script))
    => selection.strategy =
         IF selection.script.runAt = "document-start"
           THEN [method |-> "userscripts-dynamic", world |-> "USER_SCRIPT",
                 timing |-> "document_start"]
           ELSE [method |-> "userscripts-api", world |-> "USER_SCRIPT",
                 timing |-> DeclaredTiming(selection.script)]

C17_Witness ==
  /\ Selected
  /\ Reported = "true"
  /\ HasPrivilegedGrant(selection.script)
  /\ selection.script.runAt = "document-start"
  /\ selection.strategy.method = "userscripts-dynamic"

\* C18 as claimed: a script with no grant other than "none" gets the direct
\* strategy in the MAIN world when the primitive is unavailable, whatever its
\* sandbox mode.
C18_NoGrantsIsDirectWhateverSandbox ==
  (Selected /\ Reported = "false" /\ ~HasGrant(selection.script))
    => selection.strategy =
         [method |-> "content-script", world |-> "MAIN",
          timing |-> DeclaredTiming(selection.script)]

\* C18: when the primitive is unavailable, a script with no grant other than
\* "none" gets the direct strategy in the MAIN world if its sandbox mode is
\* raw or absent, and the isolated content-script strategy in the USER_SCRIPT
\* world if it declares another sandbox mode.
C18_NoGrantsIsDirectWhenSandboxRaw ==
  (Selected /\ Reported = "false" /\ ~HasGrant(selection.script))
    => selection.strategy =
         [method |-> "content-script",
          world |-> IF selection.script.sandbox \in {"", "raw"}
                      THEN "MAIN" ELSE "USER_SCRIPT",
          timing |-> DeclaredTiming(selection.script)]

C18_Witness ==
  /\ Selected
  /\ Reported = "false"
  /\ ~HasGrant(selection.script)
  /\ selection.script.sandbox = "DOM"
  /\ selection.strategy.world = "USER_SCRIPT"

\* C19: selectStrategy is pure: calling it changes no state: it starts no
\* probe, so no layered check runs on its behalf, no guidance event is
\* emitted and the capability cache is not written.
C19_SelectStartsNoProbe ==
  selection.probe # 0
    => /\ probes[selection.probe].hit
       /\ probes[selection.probe].checks = 0
       /\ probes[selection.probe].events = 0

\* C20: the result of a canUseUserScriptsAPI call is decided by the answers
\* of the browser alone: with no listener, one listener or several, throwing
\* or not, the call completes with available exactly when its last check
\* passed every layer, the value it leaves in the cache is that result, and
\* a check that emitted an event failed.
C20_ListenersDoNotDecide ==
  /\ (Probed # {} /\ userScriptsAPICache.set)
       => \E i \in Probed :
            userScriptsAPICache.available = LastCheckPassed(i)
  /\ \A i \in Probes :
       /\ i \in Probed =>
            /\ probes[i].outcome = "fulfilled"
            /\ probes[i].result = BoolName(LastCheckPassed(i))
       /\ (probes[i].events > 0 /\ probes[i].checks = 1
           /\ probes[i].pc \in {"delay", "done"})
            => probes[i].first = "false"
       /\ probes[i].heard =
            IF probes[i].event = NoEvent
              THEN 0 ELSE Len(listeners[probes[i].event.type])

C20_Witness ==
  \E i \in Probed :
    /\ probes[i].event.type = "userscripts_unavailable"
    /\ \E l \in 1..Len(listeners["userscripts_unavailable"]) :
         listeners["userscripts_unavailable"][l].act = "throws"
    /\ probes[i].heard = Len(listeners["userscripts_unavailable"])
    /\ probes[i].events = 2
    /\ probes[i].result = "false"
    /\ userScriptsAPICache.set
    /\ ~userScriptsAPICache.available

\* ------------------------------------------------------ cache stamp claims
\* the calls that complete a probe in this step
Completing ==
  {i \in DOMAIN probes' :
     /\ probes'[i].pc = "done"
     /\ ~probes'[i].hit
     /\ (i \in DOMAIN probes => probes[i].pc # "done")}

\* C27: the timestamp stored with a cached probe result is the time at which
\* the final result was obtained, after the delayed retry when one ran, so
\* the value is served for 30 000 ms counted from the completion of the probe.
C27_Step ==
  \A i \in Completing :
    /\ userScriptsAPICache'.set
    /\ userScriptsAPICache'.timestamp = now'

C27_CachedAtCompletion == [][C27_Step]_vars

\* ----------------------------------------------------- layered check claims
LayerOrder == <<"object", "permission", "register", "functional">>

\* the guidance event that names a layer as the failing one
EventOfLayer(layer) ==
  CASE layer = "object" ->
         [type |-> "userscripts_unavailable",
          reason |-> "userScripts_object_missing"]
    [] layer = "permission" ->
         [type |-> "userscripts_permission_denied", reason |-> "none"]
    [] layer = "register" ->
         [type |-> "userscripts_unavailable",
          reason |-> "register_method_missing"]
    [] OTHER ->
         [type |-> "userscripts_unavailable",
          reason |-> "functional_test_failed"]

\* the calls whose last layered check has returned
Checked == {i \in Probes : ~probes[i].hit /\ probes[i].pc \in {"delay", "done"}}

\* C28: within one layered check the layers are evaluated in the order
\* object, permission, register, functional; a check that does not pass ends
\* at its first failing layer with exactly one guidance event, the one that
\* names that layer, and evaluates no later layer; a check in which every
\* layer passes emits no event.
C28_FirstFailingLayerReported ==
  /\ \A i \in Probes :
       probes[i].layers = SubSeq(LayerOrder, 1, Len(probes[i].layers))
  /\ \A i \in Checked :
       LET p == probes[i]
           n == Len(p.layers)
       IN  IF LastCheckPassed(i)
             THEN /\ n = Len(LayerOrder)
                  /\ p.event = NoEvent
                  /\ p.checks = 1 => p.events = 0
             ELSE /\ p.event = EventOfLayer(LayerOrder[n])
                  /\ p.checks = 1 => p.events = 1

\* ------------------------------------------------- decision table claims
\* script metadata of every shape the table and the score tell apart
TableScripts ==
  [id : {1}, content : {"plain"},
   grant : SelectorGrants \cup {<<"none", "GM_getValue">>, <<"GM_log", "none">>},
   runAt : SelectorRunAts \cup {"", "document-end"},
   sandbox : SelectorSandboxes \cup {"raw", "JavaScript"}]

\* the script asks for isolation: a sandbox mode other than raw, or a grant
\* other than "none"
IsolationRequired(script) ==
  script.sandbox \notin {"", "raw"} \/ HasGrant(script)

Direct(script) ==
  [method |-> "content-script", world |-> "MAIN",
   timing |-> DeclaredTiming(script)]

\* C29: selectStrategy returns the direct strategy with the MAIN world if and
\* only if no isolation is required; a script that requires isolation is
\* never given the MAIN world, whatever the capability reading.
C29_SharedWorldIffNoIsolation ==
  /\ \A s \in TableScripts : \A reading \in BOOLEAN :
       LET d == selectStrategy(s, reading)
       IN  /\ d.world = "MAIN" <=> ~IsolationRequired(s)
           /\ d.world = "MAIN" => d = Direct(s)
           /\ d.world # "MAIN" => d.world = "USER_SCRIPT"
  /\ selection.probe # 0 =>
       /\ selection.strategy.world = "MAIN"
            <=> ~IsolationRequired(selection.script)
       /\ selection.strategy.world = "MAIN"
            => selection.strategy = Direct(selection.script)

C29_Witness ==
  /\ Selected
  /\ selection.script.grant = <<"none">>
  /\ selection.script.sandbox = ""
  /\ selection.strategy = Direct(selection.script)
  /\ Reported = "true"

MethodBase(method) ==
  CASE method = "userscripts-dynamic" -> 100
    [] method = "userscripts-api" -> 80
    [] OTHER -> 60

\* the score the claim gives a strategy chosen for a script
ClaimedScore(d, script) ==
  MethodBase(d.method)
  + (IF d.timing = DeclaredTiming(script) THEN 20 ELSE 0)
  + (IF d.world = "USER_SCRIPT" /\ HasGrant(script) THEN 15 ELSE 0)

\* C30: for every strategy selectStrategy can return, getStrategyScore is
\* the base of its method plus 20 when the strategy's timing is the script's
\* declared timing plus 15 when the world is isolated and a grant other than
\* "none" is present, 135 for a privileged grant at document-start; computing
\* the score leaves the returned descriptor as the table chose it.
C30_ScoreIsBasePlusBonuses ==
  /\ \A s \in TableScripts : \A reading \in BOOLEAN :
       LET d == selectStrategy(s, reading)
       IN  /\ getStrategyScore(d, s) = ClaimedScore(d, s)
           /\ (reading /\ HasPrivilegedGrant(s) /\ s.runAt = "document-start")
                => getStrategyScore(d, s) = 135
  /\ selection.probe # 0 =>
       /\ selection.score = ClaimedScore(selection.strategy, selection.script)
       /\ selection.strategy.method = "userscripts-dynamic"
            => selection.score = 135
       /\ selection.strategy =
            selectStrategy(selection.script, checkUserScriptsAPISupport)

C30_Witness ==
  /\ Selected
  /\ selection.strategy.method = "userscripts-dynamic"
  /\ selection.score = 135

\* ------------------------------------------------ strategy claims, second part
\* the calls made to CompliantInjectionStrategy.inject from outside the engine
DirectTasks == {t \in Tasks : tasks[t].tier = "direct"}

\* C22: CompliantInjectionStrategy.inject called directly in strict mode
\* with a script whose validation is unsafe throws before any host call: no
\* register, no unregister and no executeScript is made for the script, and
\* the call ends rejected with the validation error.
C22_DirectInjectRefusesUnsafeInStrict ==
  \A t \in DirectTasks :
    (Strict /\ Unsafe(tasks[t].script)) =>
      /\ tasks[t].hostOps = {}
      /\ tasks[t].ran = "none"
      /\ tasks[t].pc \in {"C_rejected", "done"}
      /\ tasks[t].error = "ValidationError"
      /\ Settled(tasks[t]) => tasks[t].outcome = "rejected"

C22_Witness ==
  \E t \in DirectTasks :
    /\ Strict
    /\ Unsafe(tasks[t].script)
    /\ tasks[t].outcome = "rejected"
    /\ tasks[t].error = "ValidationError"
    /\ tasks[t].hostOps = {}

LegacyMethods == <<"script-tag", "function", "eval">>

\* where CompliantInjectionStrategy.inject can be when it throws
CompliantThrowPoints ==
  {"C_rejected", "C_reg", "C_bridgeId", "C_bridgeFile", "C_exec"}

\* C23: the permissive variant runs the compliant variant first and enters
\* the legacy path only from a throw of that compliant run; the enhanced
\* executor tries script-tag insertion, function synthesis and direct
\* evaluation in this order, each at most once, and stops at the first that
\* succeeds.
C23_Step ==
  \A t \in DOMAIN tasks' :
    LET k1 == tasks'[t]
        fresh == t \notin DOMAIN tasks
    IN  /\ k1.legacyCalls <= k1.compatCalls
        /\ k1.compatCalls <= k1.compliantCalls
        /\ fresh => k1.legacyCalls = 0 /\ k1.tried = << >>
        /\ (~fresh /\ k1.legacyCalls # tasks[t].legacyCalls) =>
             /\ k1.legacyCalls = tasks[t].legacyCalls + 1
             /\ tasks[t].tier \in {"permissive", "emergency"}
             /\ tasks[t].pc \in CompliantThrowPoints
             /\ k1.error # "none"
             /\ k1.pc \in {"L_bridgeId", "L_exec"}
        /\ (~fresh /\ k1.tried # tasks[t].tried) =>
             /\ tasks[t].pc = "L_exec"
             /\ k1.tried = SubSeq(LegacyMethods, 1, Len(k1.tried))
             /\ Len(k1.tried) >= 1
             /\ k1.ran \in {"none", k1.tried[Len(k1.tried)]}
             /\ k1.ran = "none" => k1.tried = LegacyMethods

C23_CompliantFirstThenLegacyInOrder == [][C23_Step]_vars

C23_Witness ==
  \E t \in InjectScriptTasks :
    /\ tasks[t].tier = "permissive"
    /\ tasks[t].legacyCalls = 1
    /\ tasks[t].tried = <<"script-tag", "function">>
    /\ tasks[t].ran = "function"
    /\ tasks[t].outcome = "fulfilled"

\* -------------------------------------------------------- build mode claims
InBuild(mode) == flags = FlagsOfBuild(mode)

PermissiveExecutors == {"script-tag", "function", "eval"}

C26_Step ==
  \A t \in DOMAIN tasks' :
    LET k1 == tasks'[t]
    IN  /\ Len(k1.results) <= 3
        /\ k1.compliantCalls <= 3
        /\ k1.compatCalls <= 2
        /\ Settled(k1) <=> k1.pc = "done"
        /\ Settled(k1) => k1.outcome \in {"fulfilled", "rejected"}
        /\ (t \in DOMAIN tasks /\ Settled(tasks[t])) => k1 = tasks[t]

\* C26: every injectScript call reaches a terminal outcome, fulfilled or
\* rejected, after at most three strategy attempts, in every mode and for
\* every combination of failing tiers; once the outcome is reported the call
\* takes no further step and its outcome does not change.
C26_EveryCallSettlesOnce ==
  /\ [][C26_Step]_vars
  /\ (Tasks # {}) ~> (Tasks # {} /\ \A t \in Tasks : Settled(tasks[t]))

C26_Witness ==
  \E t \in InjectScriptTasks :
    /\ tasks[t].results = <<"threw", "threw", "threw">>
    /\ tasks[t].stages = <<"select", "compliant", "permissive", "emergency">>
    /\ tasks[t].outcome = "rejected"

\* ---------------------------------------------------------- event bus claims
\* C21: GuidanceEventBus.emit never throws: a handler's exception is caught
\* and logged, and every handler registered for the event type is called
\* exactly once, in registration order, whether or not an earlier handler
\* threw; an emit for a type with no handlers calls nothing and changes
\* nothing.
C21_Step ==
  (dispatch' # dispatch) =>
    LET d == dispatch'
        ls == listeners[d.type]
    IN  /\ ~d.threw
        /\ d.calls = [k \in 1..Len(ls) |-> ls[k].id]
        /\ d.logged = [k \in 1..Len(ls) |-> ls[k].act = "throws"]
        /\ d.called = Len(ls)
        /\ listeners' = listeners

C25_TipsDisappear ==
  (tipElement.tip # NoTip) ~> (tipElement.tip = NoTip /\ tipStorage = NoTip)

\* ------------------------------------------------------ descriptor claims
\* how often the selector has been invoked for a call
Selections(k) ==
  Cardinality({i \in 1..Len(k.stages) : k.stages[i] = "select"})

\* what C31 asks of every step
C31_Step ==
  \A t \in DOMAIN tasks' :
    LET k1 == tasks'[t]
    IN  k1.stages # << >> =>
          /\ Selections(k1) = 1
          /\ k1.stages[1] = "select"
          /\ k1.strategy # NoStrategy
          /\ (k1.compliantCalls > 0 \/ k1.hostOps # {}) =>
               k1.strategy = selectStrategy(k1.script, checkUserScriptsAPISupport)
          /\ (t \in DOMAIN tasks /\ tasks[t].script = k1.script
              /\ tasks[t].stages # << >>) =>
               k1.strategy = tasks[t].strategy

\* C31: selectStrategy is invoked exactly once per injectScript call, the
\* permissive fallback and the emergency attempt included; its descriptor is
\* attached before the first execution attempt and no later step of the call
\* replaces it.
C31_SelectedOncePerCall == [][C31_Step]_vars

C31_Witness ==
  \E t \in InjectScriptTasks :
    /\ tasks[t].stages = <<"select", "compliant", "permissive", "emergency">>
    /\ Len(tasks[t].results) = 3
    /\ tasks[t].outcome = "fulfilled"
    /\ tasks[t].strategy.method = "content-script"

\* ---------------------------------------------------------- bridge claims
\* the executeScript calls that ran the script itself
ScriptExecs(k) == {i \in 1..Len(k.execs) : k.execs[i].what = "script"}

BridgeStep(x, what) == x.what = what /\ x.world = "ISOLATED"

\* C32: on the executeScript path of either strategy, a script that needs
\* isolation is executed only right after the two bridge steps, script id
\* first and bridge file second, both in the isolated world and both
\* successful; a bridge step that throws is followed by no execution of the
\* script in that attempt; a script that needs no isolation is executed in
\* the MAIN world and no bridge step is made for it.
C32_BridgeBeforeIsolatedScript ==
  \A t \in Tasks :
    LET k == tasks[t]
        x == k.execs
    IN  IF needsIsolation(k.script)
          THEN \A i \in 1..Len(x) :
                 /\ x[i].what = "script" =>
                      /\ i >= 3
                      /\ BridgeStep(x[i - 2], "currentScriptId") /\ x[i - 2].ok
                      /\ BridgeStep(x[i - 1], "api-bridge.js") /\ x[i - 1].ok
                 /\ x[i].what = "api-bridge.js" =>
                      /\ i >= 2
                      /\ BridgeStep(x[i - 1], "currentScriptId") /\ x[i - 1].ok
                 /\ (x[i].what # "script" /\ ~x[i].ok /\ i < Len(x)) =>
                      x[i + 1].what = "currentScriptId"
          ELSE \A i \in 1..Len(x) :
                 x[i].what = "script" /\ x[i].world = "MAIN"

\* a call whose compliant attempt lost the bridge at its first step and whose
\* legacy attempt injected the bridge again and ran the script
C32_Witness ==
  \E t \in Tasks :
    LET x == tasks[t].execs
    IN  /\ needsIsolation(tasks[t].script)
        /\ Len(x) = 4
        /\ x[1].what = "currentScriptId" /\ ~x[1].ok
        /\ x[4].what = "script" /\ x[4].ok /\ x[4].world = "ISOLATED"
        /\ tasks[t].legacyCalls = 1

\* C33: the path that runs agrees with the descriptor attached to the script:
\* chrome.userScripts.register is called only for a script whose descriptor
\* names a registration method, and a script whose descriptor is
\* content-script in the MAIN world is executed in the MAIN world and is not
\* registered in the USER_SCRIPT world.
C33_PathAgreesWithDescriptor ==
  \A t \in InjectScriptTasks :
    LET k == tasks[t]
    IN  /\ "register" \in k.hostOps => k.strategy.method \in RegistrationMethods
        /\ (k.strategy.method = "content-script" /\ k.strategy.world = "MAIN") =>
             /\ k.registeredAs = NoStrategy
             /\ \A i \in ScriptExecs(k) : k.execs[i].world = "MAIN"

\* the condition the outer catch of injectScript puts on the emergency attempt
EmergencyAllowed ==
  /\ ~isFeatureEnabled("storeCompliant")
  /\ ~isFeatureEnabled("legacyInjection")
  /\ isFeatureEnabled("evalFallback")

\* C34: in the store build and in the compat build the condition of the
\* emergency attempt is false, and no injectScript call enters the emergency
\* stage, whatever fails before.
C34_NoEmergencyInEitherBuild ==
  /\ ~EmergencyAllowed
  /\ \A t \in Tasks :
       /\ "emergency" \notin StageSet(tasks[t])
       /\ tasks[t].tier # "emergency"

\* the outer catch has run in the compat build and has thrown the error on
C34_Witness ==
  /\ InBuild("compat")
  /\ \E t \in InjectScriptTasks :
       /\ tasks[t].stages = <<"select", "permissive">>
       /\ tasks[t].results = <<"threw">>
       /\ "injection-failed" \in tasks[t].log
       /\ tasks[t].outcome = "rejected"

\* -------------------------------------------------------- registration claims
\* C35: after any sequence of register and unregister calls, host failures
\* included, getScriptStatus(id) is 'registered' only if the host holds a
\* registration for id.
C35_RegisteredOnlyIfHostHolds ==
  \A id \in ScriptIds :
    getScriptStatus(id) = "registered" => id \in hostScripts

\* ---------------------------------------------------------- background claims
\* the listener has ended, by returning or by an exception nothing caught
TabLoadEnded == tabLoad.pc \in {"done", "threw"}

\* C36: on a tab load every enabled script that matches the tab URL gets an
\* injection attempt, also when the injection of an earlier one failed.
C36_EveryMatchingScriptAttempted ==
  (TabLoadEnded /\ tabLoad.attempted # {}) =>
    \A i \in 1..Len(tabLoad.scripts) :
      (tabLoad.scripts[i].enabled /\ matches(tabLoad.scripts[i])) =>
        tabLoad.scripts[i].script.id \in tabLoad.attempted

\* C38: a GM_getResourceText, GM_getResourceURL or GM_xmlhttpRequest call
\* that names a script the background has cached on a tab load is never
\* answered 'Script not found'.
C38_CachedScriptIsKnownToGMAPI ==
  (gmResponse.action # "none" /\ gmResponse.scriptId \in scriptCache) =>
    gmResponse.error # "Script not found"

\* C37: one canUseUserScriptsAPI call emits at most one guidance event,
\* whatever the immediate check and the delayed retry answer, and a call
\* served from the cache emits none.
C37_AtMostOneEventPerCall ==
  \A i \in Probes :
    /\ probes[i].events <= 1
    /\ probes[i].hit => probes[i].events = 0

\* C39: an emit hands the event exactly once to every handler that was
\* registered for the type when emit was called, in registration order, also
\* when a handler calls off or on while the event is handed to it.
C39_Step ==
  (dispatch' # dispatch) =>
    LET ls == listeners[dispatch'.type]
    IN  dispatch'.calls = [k \in 1..Len(ls) |-> ls[k].id]

C39_EveryRegisteredHandlerCalledOnce == [][C39_Step]_vars

\* ------------------------------------------------------ guidance queue claims
\* the ids of the messages displayed so far, in the order of their display
ShownIds == [k \in 1..Len(shownGuidance) |-> shownGuidance[k].id]

\* what C40 asks of every state: one message is displayed at a time, the
\* messages displayed are the first ones added, each once and in the order
\* added, and a message is in exactly one place: waiting, being displayed or
\* displayed
C40_Safe ==
  /\ Cardinality(inFlight) <= 1
  /\ \A k \in 1..Len(shownGuidance) : shownGuidance[k].alone
  /\ ShownIds = [k \in 1..Len(shownGuidance) |-> k]
  /\ Len(shownGuidance) + Cardinality(inFlight) + Len(guidanceQueue) =
       addedGuidance
  /\ isShowing <=> inFlight # {}

\* C40: every message passed to addGuidance is eventually shown, exactly
\* once, in the order added and never while another message is being shown,
\* also when it was added while a message was being shown or during the 2 s
\* gap before the next one.
C40_EveryGuidanceShownOnceInOrder ==
  /\ []C40_Safe
  /\ \A id \in 1..MaxGuidance :
       (addedGuidance >= id) ~> (Len(shownGuidance) >= id)

\* three messages displayed, one added while the first was being shown and
\* one added during the gap before the second
C40_Witness ==
  /\ Len(shownGuidance) = 3
  /\ shownGuidance[2].addedWhile = "showing"
  /\ shownGuidance[3].addedWhile = "gap"

====
